---- MODULE Spec2Model ----
(***************************************************************************)
(* Model of the AWS Batch monitoring dashboard:                            *)
(*   - the read path of dynamo_queries.py (paginated scan, then the        *)
(*     latest-state reduction of get_latest_state_per_job);                *)
(*   - the construction of the BackboneActions client of                   *)
(*     backbone_actions.py and its session slot in app.py.                 *)
(***************************************************************************)
EXTENDS Integers, Sequences, FiniteSets, TLC

(***************************************************************************)
(* Bounds                                                                  *)
(***************************************************************************)
MaxRecords == 3

(***************************************************************************)
(* Strings that are compared with < or > are sequences of code points, so  *)
(* that Python's str comparison is computed and not assumed.               *)
(***************************************************************************)
RECURSIVE StrLT(_, _)
StrLT(a, b) ==
    IF a = <<>> THEN b # <<>>
    ELSE IF b = <<>> THEN FALSE
    ELSE IF Head(a) # Head(b) THEN Head(a) < Head(b)
    ELSE StrLT(Tail(a), Tail(b))

StrGT(a, b) == StrLT(b, a)

(***************************************************************************)
(* DynamoDB items.  An item is a Python dict: a key may be absent, and a   *)
(* present key may hold the empty string.                                  *)
(***************************************************************************)
JobIds == {"j1", "j2"}

\* "1" < "12" < "2" as strings, while 12 > 2 as numbers
Timestamps == {<<1>>, <<1, 2>>, <<2>>}

\* every job at every timestamp, and a second record of j1 at every timestamp
\* that differs from the first one by its status
WellFormedItems ==
    {[jobId |-> j, timestamp |-> t, status |-> "RUNNING"] : j \in JobIds, t \in Timestamps}
        \cup {[jobId |-> "j1", timestamp |-> t, status |-> "FAILED"] : t \in Timestamps}

\* jobId absent, jobId empty, timestamp absent, timestamp empty
MalformedItems ==
    { [timestamp |-> <<2>>, status |-> "FAILED"],
      [jobId |-> "", timestamp |-> <<2>>, status |-> "FAILED"],
      [jobId |-> "j1", status |-> "FAILED"],
      [jobId |-> "j1", timestamp |-> <<>>, status |-> "FAILED"] }

Items == WellFormedItems \cup MalformedItems

\* item.get('jobId') / item.get('timestamp') followed by the truth test
HasJobId(item) == "jobId" \in DOMAIN item /\ item.jobId # ""

HasTimestamp(item) == "timestamp" \in DOMAIN item /\ item.timestamp # <<>>

(***************************************************************************)
(* State                                                                   *)
(***************************************************************************)
VARIABLES
    table,       \* the items of the DynamoDB table, in the store's scan order
    request,     \* get_all_jobs: the last scan request (its ExclusiveStartKey)
    response,    \* get_all_jobs: the last scan response (its LastEvaluatedKey)
    all_items,   \* get_all_jobs: the items accumulated so far
    fetched,     \* how many times the store returned each position of table
    result,      \* get_latest_state_per_job: the returned list
    raised,      \* get_latest_state_per_job: an exception escaped the call
    pc           \* position of the load call

loadVars == <<table, request, response, all_items, fetched, result, raised, pc>>

VARIABLES
    environ,        \* os.environ of the process
    boot_environ,   \* os.environ as the process found it when it started
    secrets,        \* st.secrets
    session_state,  \* st.session_state of every session
    wpc,            \* position of every script run
    wsession,       \* the session a script run belongs to
    wregion,        \* job_details['Region'] of the job selected in the run
    self,           \* the BackboneActions instance a run is initialising
    backbone,       \* the instance a run took from its session (app.py:597)
    env_before,     \* os.environ when the run entered BackboneActions()
    constructions,  \* BackboneClient(...) invocations made for every session
    instances,      \* BackboneActions instances created so far
    runs            \* script runs started so far

regVars == <<environ, boot_environ, secrets, session_state, wpc, wsession, wregion, self,
             backbone, env_before, constructions, instances, runs>>

VARIABLES
    backbone_client,  \* the BackboneActions instance the dashboard holds
    remote_calls,     \* the calls the last operation issued on a BackboneClient, in order
    invocation,       \* the last operation invoked, its arguments, the remote's answers
    op_outcome,       \* what the last operation gave its caller
    action_log,       \* st.session_state.action_log
    presses           \* presses of the Exécuter button so far

actVars == <<backbone_client, remote_calls, invocation, op_outcome, action_log, presses>>

VARIABLES
    events,         \* the events lambda_handler has stored, with the clock it read
    lambda_result   \* what the last run of lambda_handler gave

ingVars == <<events, lambda_result>>

VARIABLES
    row,            \* the DynamoDB item format_jobs_dataframe is given
    derived,        \* the columns format_jobs_dataframe derives from it
    filtered_df,    \* the number of rows of filtered_df
    page_size,      \* st.session_state.page_size
    current_page,   \* st.session_state.current_page
    rendered        \* what the last script run displayed of the jobs table

viewVars == <<row, derived, filtered_df, page_size, current_page, rendered>>

vars == <<loadVars, regVars, actVars, ingVars, viewVars>>

NotDerived == [derived |-> FALSE]

\* no jobs table on display: `rerun` tells that the run ended in st.rerun(),
\* `by` the widget that ended it, `after` the widget that caused this run
NotRendered == [table |-> FALSE, rerun |-> FALSE, by |-> "none", after |-> "none"]

\* app.py:51-56, the session before any job is listed
ViewIdle ==
    /\ row = [absent |-> TRUE]
    /\ derived = NotDerived
    /\ filtered_df = 0
    /\ page_size = 20
    /\ current_page = 1
    /\ rendered = NotRendered

(***************************************************************************)
(* The record store: table.scan(ExclusiveStartKey=...)                     *)
(* A key is the position of the last item the store evaluated.  The store  *)
(* chooses the page size; a response that reaches the end of the table may *)
(* still carry a LastEvaluatedKey, and the scan that follows is then empty.*)
(***************************************************************************)
NoResponse == [k \in {} |-> 0]

NoStartKey == [k \in {} |-> 0]

HasStartKey(req) == "ExclusiveStartKey" \in DOMAIN req

HasLastKey(resp) == "LastEvaluatedKey" \in DOMAIN resp

\* the store resumes after the ExclusiveStartKey, or at the first item
StartOf(req) == IF HasStartKey(req) THEN req.ExclusiveStartKey ELSE 0

\* variant: the continuation key is not passed on
NextRequestNoKey(resp) == NoStartKey

\* scan(ExclusiveStartKey=response['LastEvaluatedKey'])
NextRequest(resp) == [ExclusiveStartKey |-> resp.LastEvaluatedKey]

PageSizes(start) ==
    IF start >= Len(table) THEN {0} ELSE 1..(Len(table) - start)

LastKeys(start, size) ==
    IF size = 0 THEN {NoResponse}
    ELSE IF start + size < Len(table)
         THEN {[LastEvaluatedKey |-> start + size]}
         ELSE {NoResponse, [LastEvaluatedKey |-> start + size]}

Page(start, size) == SubSeq(table, start + 1, start + size)

Fetch(start, size) ==
    [i \in DOMAIN fetched |->
        IF i > start /\ i <= start + size THEN fetched[i] + 1 ELSE fetched[i]]

(***************************************************************************)
(* get_latest_state_per_job: the grouping loop.  latest_jobs is a dict     *)
(* keyed by jobId; a dict keeps the insertion order of its keys, so it is  *)
(* the sequence of its values.                                             *)
(***************************************************************************)
KeyIndex(latest_jobs, job_id) ==
    {k \in 1..Len(latest_jobs) :
        "jobId" \in DOMAIN latest_jobs[k] /\ latest_jobs[k].jobId = job_id}

\* variant: only the jobId is tested
SkippedJobIdOnly(item) == ~HasJobId(item)

\* if not job_id or not timestamp: continue
Skipped(item) == ~HasJobId(item) \/ ~HasTimestamp(item)

\* variant: the timestamps are compared as numbers
RECURSIVE NumberOf(_)
NumberOf(str) == IF str = <<>> THEN 0 ELSE 10 * NumberOf(SubSeq(str, 1, Len(str) - 1)) + str[Len(str)]

NewerAsNumber(timestamp, existing) == NumberOf(timestamp) > NumberOf(existing.timestamp)

\* variant: only the leading character of the timestamps is compared
NewerFirstChar(timestamp, existing) == Head(timestamp) > Head(existing.timestamp)

\* variant: >= instead of >
NewerOrEqual(timestamp, existing) == ~StrLT(timestamp, existing.timestamp)

\* timestamp > latest_jobs[job_id].get('timestamp')
Newer(timestamp, existing) == StrGT(timestamp, existing.timestamp)

\* variant: a newer item is added instead of replacing the entry of its job
LoopBodyAppend(st, item) ==
    IF st.raised \/ Skipped(item) THEN st
    ELSE LET idx == KeyIndex(st.latest_jobs, item.jobId) IN
         IF idx = {} \/ \A k \in idx : Newer(item.timestamp, st.latest_jobs[k])
         THEN [st EXCEPT !.latest_jobs = Append(st.latest_jobs, item)]
         ELSE st

\* one iteration of the loop over all_items
LoopBody(st, item) ==
    IF st.raised \/ Skipped(item) THEN st
    ELSE LET idx == KeyIndex(st.latest_jobs, item.jobId) IN
         IF idx = {}
         THEN [st EXCEPT !.latest_jobs = Append(st.latest_jobs, item)]
         ELSE LET k == CHOOSE k \in idx : TRUE IN
              IF "timestamp" \notin DOMAIN st.latest_jobs[k]
              THEN [st EXCEPT !.raised = TRUE]      \* str > None: TypeError
              ELSE IF Newer(item.timestamp, st.latest_jobs[k])
                   THEN [st EXCEPT !.latest_jobs[k] = item]
                   ELSE st

RECURSIVE Loop(_, _, _)
Loop(st, input, i) ==
    IF i > Len(input) THEN st ELSE Loop(LoopBody(st, input[i]), input, i + 1)

\* variant: the loop misses the first item
ReduceFromSecond(input) ==
    IF input = <<>>
    THEN [raised |-> FALSE, latest_jobs |-> <<>>]
    ELSE Loop([raised |-> FALSE, latest_jobs |-> <<>>], input, 2)

\* the body of get_latest_state_per_job after get_all_jobs returned
Reduce(input) ==
    IF input = <<>>
    THEN [raised |-> FALSE, latest_jobs |-> <<>>]
    ELSE Loop([raised |-> FALSE, latest_jobs |-> <<>>], input, 1)

(***************************************************************************)
(* BackboneActions (backbone_actions.py) and its session slot (app.py).    *)
(* None is the empty tuple and a value v is <<v>>.                         *)
(***************************************************************************)
\* script runs started in one behaviour
MaxRuns == 2

\* two script threads of the Streamlit process
Workers == {"w1", "w2"}

Sessions == {"s1", "s2"}

Regions == {"eu-west-1", "us-east-1"}

None == <<>>

Some(v) == <<v>>

\* os.getenv(key)
Getenv(key) == IF key \in DOMAIN environ THEN Some(environ[key]) ELSE None

\* os.environ[key] = value
Setenv(env, key, value) ==
    [k \in DOMAIN env \cup {key} |-> IF k = key THEN value ELSE env[k]]

Truthy(opt) == opt # None /\ opt # Some("")

\* BackboneActions._get_workspace_uid
GetWorkspaceUid ==
    IF "workspace_uid" \in DOMAIN secrets THEN Some(secrets["workspace_uid"])
    ELSE IF Truthy(Getenv("WORKSPACE_UID")) THEN Getenv("WORKSPACE_UID")
    ELSE Getenv("workspace_uid")

\* BackboneActions.is_available
IsAvailable(inst) == inst.client # None /\ inst.workspace_uid # None

\* The region a BackboneClient is bound to: the constructor takes no region,
\* it reads the ambient AWS_DEFAULT_REGION of the process (app.py:772).
AmbientRegion == Getenv("AWS_DEFAULT_REGION")

\* requested is not a field of the object: it is the region of the job whose
\* script run created the instance, kept for the properties
NoInstance ==
    [id |-> 0, workspace_uid |-> None, client |-> None, init_error |-> None,
     requested |-> None]

\* "backbone_client" not in st.session_state
SlotEmpty(s) == "backbone_client" \notin DOMAIN session_state[s]

EnvValues ==
    {env \in [{"WORKSPACE_UID", "workspace_uid", "AWS_DEFAULT_REGION"} -> {"", "ws1", "ws2"} \cup Regions] :
        /\ env["WORKSPACE_UID"] \in {"", "ws2"}
        /\ env["workspace_uid"] \in {"", "ws2"}
        /\ env["AWS_DEFAULT_REGION"] \in {""} \cup Regions}

\* a variable whose value is "" in env is not set
Environment(env) == [k \in {k \in DOMAIN env : env[k] # ""} |-> env[k]]

SecretsValues ==
    {[k \in {} |-> ""], [workspace_uid |-> ""], [workspace_uid |-> "ws1"]}

RegistryIdle ==
    /\ session_state = [s \in Sessions |-> [k \in {} |-> NoInstance]]
    /\ wpc = [w \in Workers |-> "idle"]
    /\ wsession = [w \in Workers |-> "s1"]
    /\ wregion = [w \in Workers |-> "eu-west-1"]
    /\ self = [w \in Workers |-> NoInstance]
    /\ backbone = [w \in Workers |-> NoInstance]
    /\ constructions = [s \in Sessions |-> 0]
    /\ instances = 0
    /\ runs = 0

LoadIdle ==
    /\ table = <<>>
    /\ request = NoStartKey
    /\ response = NoResponse
    /\ all_items = <<>>
    /\ fetched = <<>>
    /\ result = <<>>
    /\ raised = FALSE
    /\ pc = "start"

IngestIdle ==
    /\ events = <<>>
    /\ lambda_result = "none"

NoInvocation == [op |-> "none"]

NoOutcome == [kind |-> "none"]

ActionsIdle ==
    /\ backbone_client = NoInstance
    /\ remote_calls = <<>>
    /\ invocation = NoInvocation
    /\ op_outcome = NoOutcome
    /\ action_log = <<>>
    /\ presses = 0

InitRegistry ==
    /\ LoadIdle
    /\ ActionsIdle
    /\ IngestIdle
    /\ ViewIdle
    /\ RegistryIdle
    /\ environ \in {Environment(env) : env \in EnvValues}
    /\ boot_environ = environ
    /\ secrets \in SecretsValues
    /\ env_before = [w \in Workers |-> environ]

\* a script run starts in a session with a job of some region selected
StartRun(w) ==
    /\ wpc[w] \in {"idle", "done"}
    /\ runs < MaxRuns
    /\ runs' = runs + 1
    /\ \E s \in Sessions, r \in Regions :
        /\ wsession' = [wsession EXCEPT ![w] = s]
        /\ wregion' = [wregion EXCEPT ![w] = r]
    /\ wpc' = [wpc EXCEPT ![w] = "check"]
    /\ self' = [self EXCEPT ![w] = NoInstance]
    /\ backbone' = [backbone EXCEPT ![w] = NoInstance]
    /\ env_before' = [env_before EXCEPT ![w] = environ]
    /\ UNCHANGED <<loadVars, actVars, ingVars, viewVars, environ, secrets, boot_environ, session_state, constructions, instances>>

\* app.py:594  if "backbone_client" not in st.session_state
CheckSlot(w) ==
    /\ wpc[w] = "check"
    /\ wpc' = [wpc EXCEPT ![w] = IF SlotEmpty(wsession[w]) THEN "init" ELSE "get"]
    /\ UNCHANGED <<runs, loadVars, actVars, ingVars, viewVars, environ, secrets, boot_environ, session_state, wsession, wregion, self,
                   backbone, env_before, constructions, instances>>

\* __init__, lines 15-19: the fields and the test of workspace_uid
InitFields(w) ==
    /\ wpc[w] = "init"
    /\ instances' = instances + 1
    /\ self' = [self EXCEPT ![w] = [id |-> instances + 1,
                                    workspace_uid |-> GetWorkspaceUid,
                                    client |-> None,
                                    init_error |-> None,
                                    requested |-> Some(wregion[w])]]
    /\ env_before' = [env_before EXCEPT ![w] = environ]
    /\ wpc' = [wpc EXCEPT ![w] = IF Truthy(GetWorkspaceUid) THEN "setenv" ELSE "store"]
    /\ UNCHANGED <<runs, loadVars, actVars, ingVars, viewVars, environ, secrets, boot_environ, session_state, wsession, wregion, backbone,
                   constructions>>

\* __init__, line 21: os.environ['WORKSPACE_UID'] = self.workspace_uid
SetWorkspaceEnv(w) ==
    /\ wpc[w] = "setenv"
    /\ environ' = Setenv(environ, "WORKSPACE_UID", self[w].workspace_uid[1])
    /\ wpc' = [wpc EXCEPT ![w] = "construct"]
    /\ UNCHANGED <<runs, loadVars, actVars, ingVars, viewVars, secrets, boot_environ, session_state, wsession, wregion, self, backbone,
                   env_before, constructions, instances>>

\* the instance after the try block of __init__; requested is the region of
\* the job the run is about, kept for the properties
Constructed(inst, outcome, requested) ==
    IF outcome = "client"
    THEN [inst EXCEPT !.client = Some([owner |-> inst.id,
                                       region |-> AmbientRegion,
                                       requested |-> requested,
                                       workspace_uid |-> inst.workspace_uid[1]])]
    ELSE [inst EXCEPT !.init_error = Some(outcome)]

\* __init__, lines 23-33: import pyckbone and call BackboneClient(...)
Construct(w) ==
    /\ wpc[w] = "construct"
    /\ constructions' = [constructions EXCEPT ![wsession[w]] = @ + 1]
    /\ \E outcome \in {"client", "ImportError", "Exception"} :
        self' = [self EXCEPT ![w] = Constructed(self[w], outcome, wregion[w])]
    /\ wpc' = [wpc EXCEPT ![w] = "store"]
    /\ UNCHANGED <<runs, loadVars, actVars, ingVars, viewVars, environ, secrets, boot_environ, session_state, wsession, wregion, backbone,
                   env_before, instances>>

\* app.py:595  st.session_state.backbone_client = BackboneActions()
StoreSlot(w) ==
    /\ wpc[w] = "store"
    /\ session_state' = [session_state EXCEPT ![wsession[w]] = [backbone_client |-> self[w]]]
    /\ wpc' = [wpc EXCEPT ![w] = "get"]
    /\ UNCHANGED <<runs, loadVars, actVars, ingVars, viewVars, environ, secrets, boot_environ, wsession, wregion, self, backbone,
                   env_before, constructions, instances>>

\* app.py:597  backbone = st.session_state.backbone_client
GetSlot(w) ==
    /\ wpc[w] = "get"
    /\ backbone' = [backbone EXCEPT ![w] = session_state[wsession[w]].backbone_client]
    /\ wpc' = [wpc EXCEPT ![w] = "done"]
    /\ UNCHANGED <<runs, loadVars, actVars, ingVars, viewVars, environ, secrets, boot_environ, session_state, wsession, wregion, self,
                   env_before, constructions, instances>>

NextRegistry ==
    \E w \in Workers :
        \/ StartRun(w)
        \/ CheckSlot(w)
        \/ InitFields(w)
        \/ SetWorkspaceEnv(w)
        \/ Construct(w)
        \/ StoreSlot(w)
        \/ GetSlot(w)

SpecRegistry == InitRegistry /\ [][NextRegistry]_vars

(***************************************************************************)
(* The load call: get_latest_state_per_job -> get_all_jobs                 *)
(***************************************************************************)
Tables == UNION {[1..n -> Items] : n \in 0..MaxRecords}

Init ==
    /\ table \in Tables
    /\ request = NoStartKey
    /\ response = NoResponse
    /\ all_items = <<>>
    /\ fetched = [i \in 1..Len(table) |-> 0]
    /\ result = <<>>
    /\ raised = FALSE
    /\ pc = "start"
    /\ RegistryIdle
    /\ ActionsIdle
    /\ IngestIdle
    /\ ViewIdle
    /\ environ = [k \in {} |-> ""]
    /\ boot_environ = environ
    /\ secrets = [k \in {} |-> ""]
    /\ env_before = [w \in Workers |-> environ]

\* response = self.table.scan(); items = response['Items']
ScanFirst ==
    /\ pc = "start"
    /\ request' = NoStartKey
    /\ \E size \in PageSizes(0) : \E resp \in LastKeys(0, size) :
        /\ response' = resp
        /\ all_items' = Page(0, size)
        /\ fetched' = Fetch(0, size)
        /\ pc' = IF HasLastKey(resp) THEN "paging" ELSE "reduce"
    /\ UNCHANGED <<table, result, raised, regVars, actVars, ingVars, viewVars>>

\* while 'LastEvaluatedKey' in response: scan(ExclusiveStartKey=...); extend
ScanNext ==
    /\ pc = "paging"
    /\ HasLastKey(response)
    /\ request' = NextRequest(response)
    /\ LET start == StartOf(request') IN
       \E size \in PageSizes(start) : \E resp \in LastKeys(start, size) :
        /\ response' = resp
        /\ all_items' = all_items \o Page(start, size)
        /\ fetched' = Fetch(start, size)
        /\ pc' = IF HasLastKey(resp) THEN "paging" ELSE "reduce"
    /\ UNCHANGED <<table, result, raised, regVars, actVars, ingVars, viewVars>>

\* get_all_jobs returns (its locals are gone), then the grouping loop over
\* all_items and the return of the list
ReduceItems ==
    /\ pc = "reduce"
    /\ request' = NoStartKey
    /\ response' = NoResponse
    /\ LET st == Reduce(all_items) IN
        /\ raised' = st.raised
        /\ result' = IF st.raised THEN <<>> ELSE st.latest_jobs
    /\ pc' = "done"
    /\ UNCHANGED <<table, all_items, fetched, regVars, actVars, ingVars, viewVars>>

Next == ScanFirst \/ ScanNext \/ ReduceItems

Spec == Init /\ [][Next]_vars

(***************************************************************************)
(* The operations of BackboneActions (backbone_actions.py:56-312).         *)
(* A returned dict is a record; a message built with an f-string is the    *)
(* sequence of its pieces.  An operation gives the dict it returns and the *)
(* calls it issued on the BackboneClient; every call is logged with the    *)
(* client it went through and with what the remote answered: Raise(text)   *)
(* for an exception whose str() is text, Return(value) otherwise.          *)
(***************************************************************************)
MaxPresses == 2

\* invocations of one operation in a row
MaxRepeats == 3

TaskIds == {"t1", "t2"}

\* media_id: Optional[str]
MediaIds == {None, Some("Unknown"), Some("m1")}

Raise(text) == [raise |-> text]

Return(value) == [return |-> value]

Raises(answer) == "raise" \in DOMAIN answer

\* what abort_task_by_id, break_task_by_id and launch_task may answer
Answers == {Raise("ConnectionError"), Return("done")}

\* the task documents of the remote service
TaskDocs ==
    { [task_id |-> "t9", type |-> "transcription"],
      [_id |-> "t8", task_name |-> "ingest", language |-> "fr"],
      [task_id |-> "t9", type |-> ""],
      [_id |-> "t8"] }

\* what get_tasks may answer: a dict with or without 'data', or a bare list
TasksAnswers ==
    {Raise("ConnectionError"), Return([kind |-> "dict"]), Return([kind |-> "dict", data |-> <<>>])}
        \cup {Return([kind |-> "dict", data |-> <<doc>>]) : doc \in TaskDocs}
        \cup {Return([kind |-> "list", data |-> <<doc>>]) : doc \in {[_id |-> "t8"]}}

\* the answers to a query by media_id that the lookup tells apart
MediaAnswers ==
    {Raise("ConnectionError"), Return([kind |-> "dict", data |-> <<>>]),
     Return([kind |-> "dict", data |-> <<[task_id |-> "t9", type |-> "transcription"]>>]),
     Return([kind |-> "list", data |-> <<[_id |-> "t8"]>>])}

\* dict.get(key): None when the key is absent
Get(dict, key) == IF key \in DOMAIN dict THEN Some(dict[key]) ELSE None

\* a or b
Or(a, b) == IF Truthy(a) THEN a ELSE b

Success(value) == [success |-> TRUE, result |-> value]

Failure(error) == [success |-> FALSE, error |-> error]

\* an unavailable client reported as a success
NotAvailableUnnoticed == Success("done")

NotAvailable == Failure(<<"BackboneClient non disponible">>)

\* self.client.method(**args), answered by the remote
RemoteCall(inst, method, args, answer) ==
    [client |-> inst.client[1], method |-> method, args |-> args, answer |-> answer]

\* abort_task_direct answering without asking the remote
AbortTaskDirectSilent(inst, task_id, remote) ==
    IF ~IsAvailable(inst) THEN [result |-> NotAvailable, calls |-> <<>>]
    ELSE [result |-> Success("done"), calls |-> <<>>]

\* abort_task_direct, lines 56-73
AbortTaskDirect(inst, task_id, remote) ==
    IF ~IsAvailable(inst) THEN [result |-> NotAvailable, calls |-> <<>>]
    ELSE LET call == RemoteCall(inst, "abort_task_by_id", [task_id |-> Some(task_id)], remote.abort)
         IN  [result |-> IF Raises(remote.abort) THEN Failure(<<remote.abort.raise>>)
                         ELSE Success(remote.abort.return),
              calls |-> <<call>>]

\* break_task_direct, lines 109-126
BreakTaskDirect(inst, task_id, remote) ==
    IF ~IsAvailable(inst) THEN [result |-> NotAvailable, calls |-> <<>>]
    ELSE LET call == RemoteCall(inst, "break_task_by_id", [task_id |-> Some(task_id)], remote.break)
         IN  [result |-> IF Raises(remote.break) THEN Failure(<<remote.break.raise>>)
                         ELSE Success(remote.break.return),
              calls |-> <<call>>]

\* abort_task 88-101 and break_task 141-160: the task looked up by media_id;
\* gives the exception raised, or the task id to act on (None when the first
\* task has neither task_id nor _id)
ActualTaskId(inst, task_id, media_id, remote) ==
    IF ~(Truthy(media_id) /\ media_id # Some("Unknown"))
    THEN [raised |-> None, actual_task_id |-> Some(task_id), calls |-> <<>>]
    ELSE LET call == RemoteCall(inst, "get_tasks",
                                [query_filter |-> <<"eq(media_id,", media_id[1], ")">>],
                                remote.by_media)
             tasks_result == remote.by_media.return
             tasks_list == IF "data" \in DOMAIN tasks_result THEN tasks_result.data ELSE <<>>
         IN  IF Raises(remote.by_media)
             THEN [raised |-> Some(remote.by_media.raise), actual_task_id |-> None,
                   calls |-> <<call>>]
             ELSE [raised |-> None,
                   actual_task_id |-> IF Len(tasks_list) > 0
                                      THEN Or(Get(tasks_list[1], "task_id"), Get(tasks_list[1], "_id"))
                                      ELSE Some(task_id),
                   calls |-> <<call>>]

\* abort_task, lines 75-107
AbortTask(inst, task_id, media_id, remote) ==
    IF ~IsAvailable(inst) THEN [result |-> NotAvailable, calls |-> <<>>]
    ELSE LET found == ActualTaskId(inst, task_id, media_id, remote)
             call == RemoteCall(inst, "abort_task_by_id", [task_id |-> found.actual_task_id],
                                remote.abort)
         IN  IF found.raised # None
             THEN [result |-> Failure(<<found.raised[1]>>), calls |-> found.calls]
             ELSE [result |-> IF Raises(remote.abort) THEN Failure(<<remote.abort.raise>>)
                              ELSE Success(remote.abort.return),
                   calls |-> Append(found.calls, call)]

\* break_task, lines 128-173
BreakTask(inst, task_id, media_id, remote) ==
    IF ~IsAvailable(inst) THEN [result |-> NotAvailable, calls |-> <<>>]
    ELSE LET found == ActualTaskId(inst, task_id, media_id, remote)
             call == RemoteCall(inst, "break_task_by_id", [task_id |-> found.actual_task_id],
                                remote.break)
         IN  IF found.raised # None
             THEN [result |-> Failure(<<found.raised[1]>>), calls |-> found.calls]
             ELSE [result |-> IF Raises(remote.break) THEN Failure(<<remote.break.raise>>)
                              ELSE Success(remote.break.return),
                   calls |-> Append(found.calls, call)]

\* get_task_info, lines 175-200
GetTaskInfo(inst, task_id, remote) ==
    IF ~IsAvailable(inst) THEN [result |-> NotAvailable, calls |-> <<>>]
    ELSE LET call == RemoteCall(inst, "get_tasks",
                                [query_filter |-> <<"eq(task_id,", task_id, ")">>],
                                remote.by_task)
             answered == remote.by_task.return
             tasks_list == IF answered.kind = "dict" /\ "data" \in DOMAIN answered
                           THEN answered.data ELSE <<>>
         IN  [result |-> IF Raises(remote.by_task) THEN Failure(<<remote.by_task.raise>>)
                         ELSE IF Len(tasks_list) > 0 THEN Success(tasks_list[1])
                         ELSE Failure(<<"Tâche ", task_id, " non trouvée">>),
              calls |-> <<call>>]

\* restart_task, line 227
TaskName(task_info) ==
    Or(Or(Get(task_info, "type"), Get(task_info, "task_name")), Get(task_info, "name"))

\* restart_task without the test of line 229: launches whatever the task carries
RestartTaskAnyName(inst, task_id, media_id, remote) ==
    IF ~IsAvailable(inst) THEN [result |-> NotAvailable, calls |-> <<>>]
    ELSE LET task_info_result == GetTaskInfo(inst, task_id, remote)
             task_info == task_info_result.result.result
             call == RemoteCall(inst, "launch_task",
                                [task_name |-> TaskName(task_info), media_id |-> media_id],
                                remote.launch)
         IN  IF ~task_info_result.result.success THEN task_info_result
             ELSE [result |-> IF Raises(remote.launch) THEN Failure(<<remote.launch.raise>>)
                              ELSE Success(remote.launch.return),
                   calls |-> Append(task_info_result.calls, call)]

\* restart_task, lines 202-262
RestartTask(inst, task_id, media_id, remote) ==
    IF ~IsAvailable(inst) THEN [result |-> NotAvailable, calls |-> <<>>]
    ELSE LET task_info_result == GetTaskInfo(inst, task_id, remote)
             task_info == task_info_result.result.result
             call == RemoteCall(inst, "launch_task",
                                [task_name |-> TaskName(task_info),
                                 media_id |-> media_id,
                                 language |-> Get(task_info, "language"),
                                 profile_uid |-> Get(task_info, "profile_uid"),
                                 dest_uid |-> Get(task_info, "dest_uid"),
                                 prompt_uid |-> Get(task_info, "prompt_uid")],
                                remote.launch)
         IN  IF ~task_info_result.result.success THEN task_info_result
             ELSE IF ~Truthy(TaskName(task_info))
             THEN [result |-> Failure(<<"task_name/type non trouvé dans les informations de la tâche. Clés disponibles: ",
                                        DOMAIN task_info>>),
                   calls |-> task_info_result.calls]
             ELSE [result |-> IF Raises(remote.launch) THEN Failure(<<remote.launch.raise>>)
                              ELSE Success(remote.launch.return),
                   calls |-> Append(task_info_result.calls, call)]

\* the composite without the early return of lines 278-279: the restart runs
\* whatever the break gave
BreakThenRestartAlways(inst, break_result, task_id, media_id, remote) ==
    LET restart_result == RestartTask(inst, task_id, media_id, remote)
    IN  IF ~break_result.result.success
        THEN [result |-> Failure(<<"Échec du break: ">> \o break_result.result.error),
              calls |-> break_result.calls \o restart_result.calls]
        ELSE IF ~restart_result.result.success
        THEN [result |-> Failure(<<"Break réussi mais échec du restart: ">>
                                     \o restart_result.result.error),
              calls |-> break_result.calls \o restart_result.calls]
        ELSE [result |-> Success([break |-> break_result.result.result,
                                  restart |-> restart_result.result.result]),
              calls |-> break_result.calls \o restart_result.calls]

\* the composite restarting first and breaking afterwards
RestartThenBreak(inst, break_result, task_id, media_id, remote) ==
    LET restart_result == RestartTask(inst, task_id, media_id, remote)
    IN  IF ~break_result.result.success
        THEN [result |-> Failure(<<"Échec du break: ">> \o break_result.result.error),
              calls |-> break_result.calls]
        ELSE IF ~restart_result.result.success
        THEN [result |-> Failure(<<"Break réussi mais échec du restart: ">>
                                     \o restart_result.result.error),
              calls |-> restart_result.calls \o break_result.calls]
        ELSE [result |-> Success([break |-> break_result.result.result,
                                  restart |-> restart_result.result.result]),
              calls |-> restart_result.calls \o break_result.calls]

\* the composite handing back the failure of the restart as it is
BreakThenRestartBare(inst, break_result, task_id, media_id, remote) ==
    LET restart_result == RestartTask(inst, task_id, media_id, remote)
    IN  IF ~break_result.result.success
        THEN [result |-> Failure(<<"Échec du break: ">> \o break_result.result.error),
              calls |-> break_result.calls]
        ELSE IF ~restart_result.result.success
        THEN [result |-> restart_result.result,
              calls |-> break_result.calls \o restart_result.calls]
        ELSE [result |-> Success([break |-> break_result.result.result,
                                  restart |-> restart_result.result.result]),
              calls |-> break_result.calls \o restart_result.calls]

\* lines 276-287 and 301-312: the restart after the break, and the dict returned
BreakThenRestart(inst, break_result, task_id, media_id, remote) ==
    LET restart_result == RestartTask(inst, task_id, media_id, remote)
    IN  IF ~break_result.result.success
        THEN [result |-> Failure(<<"Échec du break: ">> \o break_result.result.error),
              calls |-> break_result.calls]
        ELSE IF ~restart_result.result.success
        THEN [result |-> Failure(<<"Break réussi mais échec du restart: ">>
                                     \o restart_result.result.error),
              calls |-> break_result.calls \o restart_result.calls]
        ELSE [result |-> Success([break |-> break_result.result.result,
                                  restart |-> restart_result.result.result]),
              calls |-> break_result.calls \o restart_result.calls]

\* restart_and_break_task_direct, lines 264-287
RestartAndBreakTaskDirect(inst, task_id, media_id, remote) ==
    BreakThenRestart(inst, BreakTaskDirect(inst, task_id, remote), task_id, media_id, remote)

\* restart_and_break_task, lines 289-312
RestartAndBreakTask(inst, task_id, media_id, remote) ==
    BreakThenRestart(inst, BreakTask(inst, task_id, media_id, remote), task_id, media_id, remote)

\* the parameters of every method, self apart
Parameters(op) ==
    CASE op = "abort_task_direct" -> {"task_id"}
      [] op = "abort_task" -> {"task_id", "media_id"}
      [] op = "break_task_direct" -> {"task_id"}
      [] op = "break_task" -> {"task_id", "media_id"}
      [] op = "get_task_info" -> {"task_id", "media_id"}
      [] op = "restart_task" -> {"task_id", "media_id"}
      [] op = "restart_and_break_task_direct" -> {"task_id", "media_id"}
      [] op = "restart_and_break_task" -> {"task_id", "media_id"}

\* the methods BackboneActions defines, is_available and the private ones apart
Operations ==
    {"abort_task_direct", "abort_task", "break_task_direct", "break_task", "get_task_info",
     "restart_task", "restart_and_break_task_direct", "restart_and_break_task"}

\* the body of a method of BackboneActions
Body(inst, op, task_id, media_id, remote) ==
    CASE op = "abort_task_direct" -> AbortTaskDirect(inst, task_id, remote)
      [] op = "abort_task" -> AbortTask(inst, task_id, media_id, remote)
      [] op = "break_task_direct" -> BreakTaskDirect(inst, task_id, remote)
      [] op = "break_task" -> BreakTask(inst, task_id, media_id, remote)
      [] op = "get_task_info" -> GetTaskInfo(inst, task_id, remote)
      [] op = "restart_task" -> RestartTask(inst, task_id, media_id, remote)
      [] op = "restart_and_break_task_direct" ->
             RestartAndBreakTaskDirect(inst, task_id, media_id, remote)
      [] op = "restart_and_break_task" -> RestartAndBreakTask(inst, task_id, media_id, remote)

\* backbone.op(..., **keywords): Python raises AttributeError when the class
\* defines no such method, and TypeError before the body runs when a keyword
\* is not a parameter of the method
MethodCall(inst, op, task_id, media_id, keywords, remote) ==
    IF op \notin Operations
    THEN [outcome |-> [kind |-> "raised", exception |-> "AttributeError"], calls |-> <<>>]
    ELSE IF keywords \subseteq Parameters(op)
    THEN LET done == Body(inst, op, task_id, media_id, remote)
         IN  [outcome |-> [kind |-> "returned", value |-> done.result], calls |-> done.calls]
    ELSE [outcome |-> [kind |-> "raised", exception |-> "TypeError"], calls |-> <<>>]

\* the remote methods an operation may call
Consults(op) ==
    CASE op = "abort_task_direct" -> {"abort"}
      [] op = "abort_task" -> {"by_media", "abort"}
      [] op = "break_task_direct" -> {"break"}
      [] op = "break_task" -> {"by_media", "break"}
      [] op = "get_task_info" -> {"by_task"}
      [] op = "restart_task" -> {"by_task", "launch"}
      [] op = "restart_and_break_task_direct" -> {"break", "by_task", "launch"}
      [] op = "restart_and_break_task" -> {"by_media", "break", "by_task", "launch"}
      [] OTHER -> {}

NotAsked == [asked |-> FALSE]

\* what the remote answers to each call of one operation
Remotes(op) ==
    [abort : IF "abort" \in Consults(op) THEN Answers ELSE {NotAsked},
     break : IF "break" \in Consults(op) THEN Answers ELSE {NotAsked},
     launch : IF "launch" \in Consults(op) THEN Answers ELSE {NotAsked},
     by_media : IF "by_media" \in Consults(op) THEN MediaAnswers ELSE {NotAsked},
     by_task : IF "by_task" \in Consults(op) THEN TasksAnswers ELSE {NotAsked}]

\* the instances a session can hold after BackboneActions()
HeldInstances ==
    { [NoInstance EXCEPT !.id = 1],
      [NoInstance EXCEPT !.id = 1, !.workspace_uid = Some("ws1"), !.init_error = Some("Exception"),
                         !.requested = Some("eu-west-1")] }
    \cup { [NoInstance EXCEPT !.id = 1, !.workspace_uid = Some("ws1"),
                              !.requested = Some("eu-west-1"),
                              !.client = Some([owner |-> 1, region |-> bound,
                                               requested |-> "eu-west-1",
                                               workspace_uid |-> "ws1"])] :
           bound \in {None, Some("eu-west-1")} }

InitActions ==
    /\ LoadIdle
    /\ RegistryIdle
    /\ IngestIdle
    /\ ViewIdle
    /\ environ = [k \in {} |-> ""]
    /\ boot_environ = environ
    /\ secrets = [k \in {} |-> ""]
    /\ env_before = [w \in Workers |-> environ]
    /\ backbone_client \in HeldInstances
    /\ remote_calls = <<>>
    /\ invocation = NoInvocation
    /\ op_outcome = NoOutcome
    /\ action_log = <<>>
    /\ presses = 0

\* an operation of BackboneActions called with the arguments of its
\* signature, for a job of some region
Invoke ==
    /\ \E op \in Operations, task_id \in TaskIds, region \in Regions :
       \E media_id \in IF "media_id" \in Parameters(op) THEN MediaIds ELSE {None},
          remote \in Remotes(op) :
        LET called == MethodCall(backbone_client, op, task_id, media_id, {}, remote)
        IN  /\ invocation' = [op |-> op, task_id |-> task_id, media_id |-> media_id,
                              region |-> region, from |-> "signature"]
            /\ remote_calls' = called.calls
            /\ op_outcome' = called.outcome
    /\ UNCHANGED <<loadVars, regVars, ingVars, viewVars, backbone_client, action_log, presses>>

\* abort_task_direct or break_task_direct called `times` times in a row with
\* one task id; remote_calls then holds the calls of all these invocations
InvokeRepeatedly ==
    /\ \E op \in {"abort_task_direct", "break_task_direct"}, task_id \in TaskIds,
          region \in Regions, times \in 1..MaxRepeats :
       \E remotes \in [1..times -> Remotes(op)] :
        LET called(i) == MethodCall(backbone_client, op, task_id, None, {}, remotes[i])
            issued[i \in 0..times] == IF i = 0 THEN <<>> ELSE issued[i - 1] \o called(i).calls
        IN  /\ invocation' = [op |-> op, task_id |-> task_id, media_id |-> None,
                              region |-> region, from |-> "signature", times |-> times]
            /\ remote_calls' = issued[times]
            /\ op_outcome' = called(times).outcome
    /\ UNCHANGED <<loadVars, regVars, ingVars, viewVars, backbone_client, action_log, presses>>

\* a row of the jobs table as the Exécuter handler reads it; a missing
\* identifier is the string "None"
JobDetails ==
    [Region : Regions, TaskType : {"Assembly (Zip Package)", "Transcription"},
     AssemblyID : {"None", "a1"}, TaskID : {"None", "t1"}, MediaID : {"None", "m1"},
     JobID : {"j1"}]

\* app.py:774-785, the method each action of the radio calls
MethodOf(action) ==
    CASE action = "Abort" -> "abort_task_direct"
      [] action = "Broken" -> "break_task_direct"
      [] action = "Restart" -> "restart_task"
      [] action = "Restart and set as broken" -> "restart_and_break_task_direct"

\* app.py:693-696
ActionOptions(is_assembly_job) ==
    IF is_assembly_job THEN {"Repair"}
    ELSE {"Restart", "Abort", "Broken", "Restart and set as broken"}

\* app.py:732-760 and 787-817: the entry appended to the action log
LogEntry(ids, job_details, action, result_dict) ==
    [ids |-> ids, JobID |-> job_details.JobID, Action |-> action,
     Status |-> IF result_dict.success THEN <<"Success">>
                ELSE <<"Error: ">> \o result_dict.error]

\* app.py:714-817, the Exécuter button
Execute ==
    /\ presses < MaxPresses
    /\ presses' = presses + 1
    /\ \E job_details \in JobDetails, selected_backbone_task_id \in {None, Some("t2")} :
        LET region == job_details.Region
            is_assembly_job == job_details.TaskType = "Assembly (Zip Package)"
            assembly_id == job_details.AssemblyID
            task_id == IF selected_backbone_task_id # None THEN selected_backbone_task_id[1]
                       ELSE job_details.TaskID
            media_id == job_details.MediaID
        IN  \E action \in ActionOptions(is_assembly_job) :
            IF ~IsAvailable(backbone_client)
            THEN /\ invocation' = [op |-> "none", region |-> region, from |-> "Exécuter"]
                 /\ op_outcome' = [kind |-> "st.error",
                                   message |-> "API BackboneClient non disponible."]
                 /\ remote_calls' = <<>>
                 /\ UNCHANGED action_log
            ELSE IF is_assembly_job
            THEN IF assembly_id = "None"
                 THEN /\ invocation' = [op |-> "none", region |-> region, from |-> "Exécuter"]
                      /\ op_outcome' = [kind |-> "st.error", message |-> "Assembly ID manquant."]
                      /\ remote_calls' = <<>>
                      /\ UNCHANGED action_log
                 ELSE \E remote \in Remotes("repair_assembly"), unreachable \in BOOLEAN :
                      LET called == MethodCall(backbone_client, "repair_assembly", assembly_id,
                                               None, {"region"}, remote)
                      IN  /\ invocation' = [op |-> "repair_assembly", assembly_id |-> assembly_id,
                                            region |-> region, from |-> "Exécuter",
                                            unreachable |-> unreachable]
                          /\ op_outcome' = called.outcome
                          /\ remote_calls' = called.calls
                          /\ action_log' =
                                 IF called.outcome.kind = "returned"
                                 THEN Append(action_log,
                                             LogEntry([AssemblyID |-> assembly_id],
                                                      job_details, action, called.outcome.value))
                                 ELSE action_log
            ELSE IF selected_backbone_task_id = None /\ (task_id = "None" \/ media_id = "None")
            THEN /\ invocation' = [op |-> "none", region |-> region, from |-> "Exécuter"]
                 /\ op_outcome' = [kind |-> "st.error", message |-> "Task ID/Media ID manquant."]
                 /\ remote_calls' = <<>>
                 /\ UNCHANGED action_log
            ELSE \E remote \in Remotes(MethodOf(action)) :
                 LET called == MethodCall(backbone_client, MethodOf(action), task_id,
                                          Some(media_id), {"region"}, remote)
                 IN  /\ invocation' = [op |-> MethodOf(action), task_id |-> task_id,
                                       media_id |-> Some(media_id), region |-> region,
                                       from |-> "Exécuter"]
                     /\ op_outcome' = called.outcome
                     /\ remote_calls' = called.calls
                     /\ action_log' =
                            IF called.outcome.kind = "returned"
                            THEN Append(action_log,
                                        LogEntry([TaskID |-> task_id, MediaID |-> media_id],
                                                 job_details, action, called.outcome.value))
                            ELSE action_log
    /\ UNCHANGED <<loadVars, regVars, ingVars, viewVars, backbone_client>>

NextActions == Invoke

SpecActions == InitActions /\ [][NextActions]_vars

NextRepeat == InvokeRepeatedly

SpecRepeat == InitActions /\ [][NextRepeat]_vars

NextExecute == Execute

SpecExecute == InitActions /\ [][NextExecute]_vars

(***************************************************************************)
(* The ingester (lambda_code_no_history.py).  An event is a dict; a job    *)
(* name is the sequence of the parts between its dashes, the empty name    *)
(* being the one empty part that ''.split('-') gives.                      *)
(***************************************************************************)
MaxEvents == 3

\* dict.get(key, default)
GetOr(dict, key, default) == IF key \in DOMAIN dict THEN dict[key] ELSE default

EmptyDict == [k \in {} |-> ""]

\* the parts of 24 characters that are made of hexadecimal digits
\* once lowered (lines 97 and 161)
ObjectIds == {"6985b698fa887fdaa7e55c0b", "694A9D57B88940A9E5CD3BEE"}

IsObjectId(part) == part \in ObjectIds

\* the first part of a job name that is an object id, None when there is none
FirstObjectId(parts) ==
    IF \E i \in DOMAIN parts : IsObjectId(parts[i])
    THEN Some(parts[CHOOSE i \in DOMAIN parts :
                        IsObjectId(parts[i]) /\ \A j \in 1..(i - 1) : ~IsObjectId(parts[j])])
    ELSE None

\* job_name.startswith('assembly-')
IsAssemblyName(job_name) == Len(job_name) > 1 /\ job_name[1] = "assembly"

\* event.get('detail', {}).get('container', {}).get('command', [])
Command(event) ==
    GetOr(GetOr(GetOr(event, "detail", EmptyDict), "container", EmptyDict), "command", <<>>)

\* the argument that follows the first occurrence of a flag that has one
Argument(command, flag) ==
    IF \E i \in 1..(Len(command) - 1) : command[i] = flag
    THEN Some(command[1 + CHOOSE i \in 1..(Len(command) - 1) :
                              command[i] = flag /\ \A j \in 1..(i - 1) : command[j] # flag])
    ELSE None

\* extract_media_id_from_event, lines 17-33
ExtractMediaId(event) == Argument(Command(event), "--media_id")

\* extract_workspace_uid_from_event, lines 36-52
ExtractWorkspaceUid(event) == Argument(Command(event), "--wuid")

\* extract_task_id_from_event, lines 55-71
ExtractTaskId(event) == Argument(Command(event), "--task_id")

\* extract_assembly_id_from_event, lines 74-104
ExtractAssemblyId(event) ==
    LET job_name == GetOr(GetOr(event, "detail", EmptyDict), "jobName", <<"">>)
    IN  IF job_name = <<"">> \/ ~IsAssemblyName(job_name) THEN None
        ELSE FirstObjectId(job_name)

\* item[key] = value when the value is truthy (lines 201-214)
WithOptional(item, key, value) ==
    IF Truthy(value) THEN (key :> value[1]) @@ item ELSE item

\* lambda_handler, lines 117-214: the item built from an event; now is what
\* datetime.utcnow().isoformat() gives
Item(event, now) ==
    LET detail == GetOr(event, "detail", EmptyDict)
        job_id == GetOr(detail, "jobId", "unknown")
        job_name == GetOr(detail, "jobName", <<"">>)
        is_assembly_job == IsAssemblyName(job_name)
        media_id == IF is_assembly_job THEN None
                    ELSE IF ~Truthy(ExtractMediaId(event)) /\ job_name # <<"">>
                    THEN FirstObjectId(job_name)
                    ELSE ExtractMediaId(event)
        task_id == IF is_assembly_job THEN None
                   ELSE IF ~Truthy(ExtractTaskId(event)) /\ job_name # <<"">>
                   THEN FirstObjectId(job_name)
                   ELSE ExtractTaskId(event)
        workspace_uid == IF is_assembly_job
                         THEN (IF Len(job_name) > 1 THEN Some(job_name[2]) ELSE None)
                         ELSE ExtractWorkspaceUid(event)
        assembly_id == IF is_assembly_job THEN ExtractAssemblyId(event) ELSE None
        item == [jobId |-> job_id,
                 timestamp |-> GetOr(event, "time", now),
                 jobName |-> job_name,
                 status |-> GetOr(detail, "status", ""),
                 jobQueue |-> GetOr(detail, "jobQueue", ""),
                 jobDefinition |-> GetOr(detail, "jobDefinition", ""),
                 region |-> Get(event, "region"),
                 account |-> Get(event, "account"),
                 statusReason |-> GetOr(detail, "statusReason", ""),
                 fullEvent |-> [json |-> event]]
    IN  WithOptional(WithOptional(WithOptional(WithOptional(item,
            "media_id", media_id), "workspace_uid", workspace_uid),
            "task_id", task_id), "assembly_id", assembly_id)

\* a table that keeps every item it is given
PutItemKeepingAll(items, item, position) ==
    SubSeq(items, 1, position - 1) \o <<item>> \o SubSeq(items, position, Len(items))

\* table.put_item(Item=item) on a table whose key is jobId: the item takes
\* the place of the item of the same jobId, or a place of its own
PutItem(items, item, position) ==
    IF \E i \in DOMAIN items : items[i].jobId = item.jobId
    THEN [i \in DOMAIN items |-> IF items[i].jobId = item.jobId THEN item ELSE items[i]]
    ELSE SubSeq(items, 1, position - 1) \o <<item>> \o SubSeq(items, position, Len(items))

\* the Batch job state change events EventBridge delivers
Events ==
    { [time |-> <<1>>, region |-> "eu-west-1", account |-> "388659957718",
       detail |-> [jobId |-> "j1", jobName |-> <<"pre", "1766497635776">>, status |-> "RUNNING",
                   container |-> [command |-> <<"--media_id", "m1", "--task_id", "t1",
                                               "--wuid", "ws1">>]]],
      [time |-> <<1, 2>>, region |-> "eu-west-1", account |-> "388659957718",
       detail |-> [jobId |-> "j1", jobName |-> <<"pre", "1766497635776">>, status |-> "FAILED",
                   statusReason |-> "Essential container in task exited",
                   container |-> [command |-> <<"--media_id", "m1", "--task_id">>]]],
      [time |-> <<2>>, region |-> "eu-west-1",
       detail |-> [jobId |-> "j1", jobName |-> <<"pre", "694A9D57B88940A9E5CD3BEE", "1766497635776">>,
                   status |-> "SUCCEEDED"]],
      [time |-> <<1>>, region |-> "us-east-1", account |-> "388659957718",
       detail |-> [jobId |-> "j2",
                   jobName |-> <<"assembly", "pre", "06_02_26_10_14_cart",
                                 "6985b698fa887fdaa7e55c0b", "zip_package", "400sec">>,
                   status |-> "RUNNING",
                   jobQueue |-> "job-queue/orchestrator-standard-pre"]],
      [time |-> <<2>>, region |-> "us-east-1", account |-> "388659957718",
       detail |-> [jobId |-> "j2", jobName |-> <<"assembly">>, status |-> "SUCCEEDED"]],
      [region |-> "eu-west-1",
       detail |-> [jobId |-> "j2", status |-> "RUNNABLE"]],
      [time |-> <<1, 2>>, detail |-> [jobName |-> <<"pre">>, status |-> "RUNNING"]],
      [time |-> <<2>>] }

InitIngest ==
    /\ LoadIdle
    /\ RegistryIdle
    /\ ActionsIdle
    /\ ViewIdle
    /\ environ = [k \in {} |-> ""]
    /\ boot_environ = environ
    /\ secrets = [k \in {} |-> ""]
    /\ env_before = [w \in Workers |-> environ]
    /\ events = <<>>
    /\ lambda_result = "none"

\* lambda_handler, lines 107-226, for one event; put_item may raise, and the
\* exception leaves the handler
LambdaHandler ==
    /\ Len(events) < MaxEvents
    /\ \E event \in Events, put \in {"stored", "raised"}, position \in 1..(Len(table) + 1) :
       \E now \in IF "time" \in DOMAIN event THEN {<<2>>} ELSE {<<1, 2>>, <<2>>} :
        IF put = "stored"
        THEN /\ table' = PutItem(table, Item(event, now), position)
             /\ fetched' = [i \in DOMAIN table' |-> 0]
             /\ events' = Append(events, [event |-> event, now |-> now])
             /\ lambda_result' = "statusCode 200"
        ELSE /\ lambda_result' = "raised"
             /\ UNCHANGED <<table, fetched, events>>
    /\ UNCHANGED <<request, response, all_items, result, raised, pc, regVars, actVars, viewVars>>

NextIngest == LambdaHandler

SpecIngest == InitIngest /\ [][NextIngest]_vars

\* the events are ingested, then the dashboard loads the latest view
NextIngestLoad == (pc = "start" /\ LambdaHandler) \/ ScanFirst \/ ScanNext \/ ReduceItems

SpecIngestLoad == InitIngest /\ [][NextIngestLoad]_vars

(***************************************************************************)
(* The columns format_jobs_dataframe derives from an item (app.py).  A str *)
(* is the sequence of its characters, so that split, lower and `in` are    *)
(* computed on the characters.                                             *)
(***************************************************************************)
\* float('nan'), the cell pandas gives a row for a key its item lacks; no
\* str equals it
NaN == <<"nan">>

IsStr(value) == value # NaN

\* the string "None" the dashboard shows for a value it has not
Sentinel ==
    <<"N", "o", "n", "e">>

UpperCase ==
    <<"A", "B", "C", "D", "E", "F", "G", "H", "I", "J", "K", "L", "M",
      "N", "O", "P", "Q", "R", "S", "T", "U", "V", "W", "X", "Y", "Z">>

LowerCase ==
    <<"a", "b", "c", "d", "e", "f", "g", "h", "i", "j", "k", "l", "m",
      "n", "o", "p", "q", "r", "s", "t", "u", "v", "w", "x", "y", "z">>

\* str.lower()
Lower(s) ==
    [i \in DOMAIN s |->
        IF \E k \in DOMAIN UpperCase : UpperCase[k] = s[i]
        THEN LowerCase[CHOOSE k \in DOMAIN UpperCase : UpperCase[k] = s[i]]
        ELSE s[i]]

\* sub in s
In(sub, s) == \E i \in 0..(Len(s) - Len(sub)) : SubSeq(s, i + 1, i + Len(sub)) = sub

\* s.split(sep) for a separator of one character
RECURSIVE Split(_, _)
Split(s, sep) ==
    IF \E i \in DOMAIN s : s[i] = sep
    THEN LET first == CHOOSE i \in DOMAIN s : s[i] = sep /\ \A j \in 1..(i - 1) : s[j] # sep
         IN  <<SubSeq(s, 1, first - 1)>> \o Split(SubSeq(s, first + 1, Len(s)), sep)
    ELSE <<s>>

\* extract_queue_name, lines 68-76
ExtractQueueName(queue_arn) ==
    IF queue_arn = <<>> \/ ~IsStr(queue_arn) THEN Sentinel
    ELSE LET parts == Split(queue_arn, "/")
         IN  IF Len(parts) > 1 THEN parts[Len(parts)] ELSE queue_arn

\* extract_job_definition_name, lines 78-88
ExtractJobDefinitionName(job_def_arn) ==
    IF job_def_arn = <<>> \/ ~IsStr(job_def_arn) THEN Sentinel
    ELSE LET parts == Split(job_def_arn, "/")
         IN  IF Len(parts) > 1
             THEN LET name_version == parts[Len(parts)]
                  IN  IF In(<<":">>, name_version) THEN Split(name_version, ":")[1]
                      ELSE name_version
             ELSE job_def_arn

HexDigitsLower ==
    <<"0", "1", "2", "3", "4", "5", "6", "7", "8", "9", "a", "b", "c", "d", "e", "f">>

\* extract_task_id taking the last part that looks like an object id
ExtractTaskIdLast(job_name) ==
    IF job_name = <<>> \/ ~IsStr(job_name) THEN Sentinel
    ELSE LET parts == Split(job_name, "-")
             found == {i \in DOMAIN parts :
                          /\ Len(parts[i]) = 24
                          /\ \A k \in DOMAIN parts[i] :
                                \E h \in DOMAIN HexDigitsLower :
                                    HexDigitsLower[h] = Lower(parts[i])[k]}
         IN  IF found = {} THEN Sentinel
             ELSE parts[CHOOSE i \in found : \A j \in found : j <= i]

\* extract_task_id, lines 90-116: the loop returns at the first part of 24
\* characters that are all in '0123456789abcdef' once lowered
AppExtractTaskId(job_name) ==
    IF job_name = <<>> \/ ~IsStr(job_name) THEN Sentinel
    ELSE LET parts == Split(job_name, "-")
             found == {i \in DOMAIN parts :
                          /\ Len(parts[i]) = 24
                          /\ \A k \in DOMAIN parts[i] :
                                \E h \in DOMAIN HexDigitsLower :
                                    HexDigitsLower[h] = Lower(parts[i])[k]}
         IN  IF found = {} THEN Sentinel
             ELSE parts[CHOOSE i \in found : \A j \in found : i <= j]

\* the task types format_task_type names
LabelIngest ==
    <<"I", "n", "g", "e", "s", "t">>

LabelAssembly ==
    <<"A", "s", "s", "e", "m", "b", "l", "y", " ", "(", "Z", "i", "p", " ", "P", "a", "c",
    "k", "a", "g", "e", ")">>

LabelTextRecognition ==
    <<"T", "e", "x", "t", " ", "R", "e", "c", "o", "g", "n", "i", "t", "i", "o", "n">>

LabelStorage ==
    <<"S", "t", "o", "r", "a", "g", "e">>

\* format_task_type trying the job definition before the queue
FormatTaskTypeDefinitionFirst(queue_name, job_def_name) ==
    LET queue_lower == Lower(queue_name)
        jobdef_lower == Lower(job_def_name)
    IN
        IF In(<<"s", "t", "o", "r", "a", "g", "e">>, jobdef_lower) THEN LabelStorage
        ELSE IF In(<<"a", "s", "s", "e", "m", "b", "l", "y">>, jobdef_lower) THEN LabelAssembly
        ELSE IF In(<<"t", "e", "x", "t">>, jobdef_lower) /\ In(<<"r", "e", "c", "o", "g", "n", "i", "t", "i", "o", "n">>, jobdef_lower)
        THEN LabelTextRecognition
        ELSE IF In(<<"i", "n", "g", "e", "s", "t">>, jobdef_lower) \/ In(<<"o", "r", "c", "h", "e", "s", "t", "r", "a", "t", "o", "r">>, jobdef_lower) THEN LabelIngest
        ELSE IF In(<<"o", "r", "c", "h", "e", "s", "t", "r", "a", "t", "o", "r">>, queue_lower) /\ In(<<"i", "n", "g", "e", "s", "t">>, queue_lower) THEN LabelIngest
        ELSE IF In(<<"a", "s", "s", "e", "m", "b", "l", "y">>, queue_lower) THEN LabelAssembly
        ELSE IF In(<<"t", "e", "x", "t", "-", "r", "e", "c", "o", "g", "n", "i", "t", "i", "o", "n">>, queue_lower)
                \/ In(<<"t", "e", "x", "t", "_", "r", "e", "c", "o", "g", "n", "i", "t", "i", "o", "n">>, queue_lower)
        THEN LabelTextRecognition
        ELSE IF queue_name # Sentinel THEN queue_name ELSE job_def_name

\* format_task_type, lines 118-151
FormatTaskType(queue_name, job_def_name) ==
    LET queue_lower == Lower(queue_name)
        jobdef_lower == Lower(job_def_name)
    IN
        IF In(<<"o", "r", "c", "h", "e", "s", "t", "r", "a", "t", "o", "r">>, queue_lower) /\ In(<<"i", "n", "g", "e", "s", "t">>, queue_lower) THEN LabelIngest
        ELSE IF In(<<"a", "s", "s", "e", "m", "b", "l", "y">>, queue_lower) THEN LabelAssembly
        ELSE IF In(<<"t", "e", "x", "t", "-", "r", "e", "c", "o", "g", "n", "i", "t", "i", "o", "n">>, queue_lower)
                \/ In(<<"t", "e", "x", "t", "_", "r", "e", "c", "o", "g", "n", "i", "t", "i", "o", "n">>, queue_lower)
        THEN LabelTextRecognition
        ELSE IF In(<<"s", "t", "o", "r", "a", "g", "e">>, jobdef_lower) THEN LabelStorage
        ELSE IF In(<<"a", "s", "s", "e", "m", "b", "l", "y">>, jobdef_lower) THEN LabelAssembly
        ELSE IF In(<<"t", "e", "x", "t">>, jobdef_lower) /\ In(<<"r", "e", "c", "o", "g", "n", "i", "t", "i", "o", "n">>, jobdef_lower)
        THEN LabelTextRecognition
        ELSE IF In(<<"i", "n", "g", "e", "s", "t">>, jobdef_lower) \/ In(<<"o", "r", "c", "h", "e", "s", "t", "r", "a", "t", "o", "r">>, jobdef_lower) THEN LabelIngest
        ELSE IF queue_name # Sentinel THEN queue_name ELSE job_def_name

\* get_task_id reading the job name before the stored field
RowTaskIdNameFirst(item) ==
    LET task_id == item.task_id
        named == AppExtractTaskId(IF item.jobName = None THEN <<>> ELSE item.jobName[1])
    IN  IF named # Sentinel THEN named
        ELSE IF task_id # None /\ task_id[1] # <<>> THEN task_id[1] ELSE Sentinel

\* get_task_id, lines 172-179; row.get gives None for a missing column, and
\* NaN is truthy
RowTaskId(item) ==
    LET task_id == item.task_id
    IN  IF task_id # None /\ task_id[1] # <<>> THEN task_id[1]
        ELSE AppExtractTaskId(IF item.jobName = None THEN <<>> ELSE item.jobName[1])

\* get_workspace_uid, lines 198-214
RowWorkspaceUid(item) ==
    LET workspace == item.workspace_uid
        job_name == item.jobName
    IN  IF workspace # None /\ workspace[1] # <<>> THEN workspace[1]
        ELSE IF job_name = None \/ job_name = Some(NaN) \/ job_name = Some(<<>>) THEN Sentinel
        ELSE LET parts == Split(job_name[1], "-")
             IN  IF parts[1] # <<>>
                    /\ parts[1] \notin {<<"r", "e", "c", "o", "g", "n", "i", "s", "e">>,
                                        <<"a", "s", "s", "e", "m", "b", "l", "y">>}
                 THEN parts[1]
                 ELSE Sentinel

\* format_jobs_dataframe, lines 153-219, for one item
FormatJob(item) ==
    LET Queue == ExtractQueueName(item.jobQueue)
        JobDef == ExtractJobDefinitionName(item.jobDefinition)
    IN  [derived |-> TRUE, Queue |-> Queue, JobDef |-> JobDef,
         TaskType |-> FormatTaskType(Queue, JobDef),
         TaskID |-> RowTaskId(item),
         WorkspaceUID |-> RowWorkspaceUid(item)]

\* the jobQueue cells: a missing one, an empty one, a bare name, ARNs
QueueArns ==
    {
      NaN,
      <<>>,
      <<"o", "r", "c", "h", "e", "s", "t", "r", "a", "t", "o", "r", "-", "p", "r", "e">>,
      <<"a", "r", "n", ":", "a", "w", "s", ":", "b", "a", "t", "c", "h", ":", "e", "u", "-",
      "w", "e", "s", "t", "-", "1", ":", "1", ":", "j", "o", "b", "-", "q", "u", "e", "u",
      "e", "/", "o", "r", "c", "h", "e", "s", "t", "r", "a", "t", "o", "r", "-", "r", "e",
      "p", "a", "i", "r", "-", "i", "n", "g", "e", "s", "t", "-", "s", "t", "a", "n", "d",
      "a", "r", "d", "-", "p", "r", "e">>,
      <<"a", "r", "n", ":", "a", "w", "s", ":", "b", "a", "t", "c", "h", ":", "e", "u", "-",
      "w", "e", "s", "t", "-", "1", ":", "1", ":", "j", "o", "b", "-", "q", "u", "e", "u",
      "e", "/", "A", "s", "s", "e", "m", "b", "l", "y", "S", "t", "a", "n", "d", "a", "r",
      "d", "-", "p", "r", "e">>,
      <<"a", "r", "n", ":", "a", "w", "s", ":", "b", "a", "t", "c", "h", ":", "e", "u", "-",
      "w", "e", "s", "t", "-", "1", ":", "1", ":", "j", "o", "b", "-", "q", "u", "e", "u",
      "e", "/", "t", "e", "x", "t", "-", "r", "e", "c", "o", "g", "n", "i", "t", "i", "o",
      "n", "-", "p", "r", "e">>,
      <<"a", "r", "n", ":", "a", "w", "s", ":", "b", "a", "t", "c", "h", ":", "e", "u", "-",
      "w", "e", "s", "t", "-", "1", ":", "1", ":", "j", "o", "b", "-", "q", "u", "e", "u",
      "e", "/", "T", "e", "x", "t", "_", "R", "e", "c", "o", "g", "n", "i", "t", "i", "o",
      "n">>,
      <<"a", "r", "n", ":", "a", "w", "s", ":", "b", "a", "t", "c", "h", ":", "e", "u", "-",
      "w", "e", "s", "t", "-", "1", ":", "1", ":", "j", "o", "b", "-", "q", "u", "e", "u",
      "e", "/", "s", "t", "o", "r", "a", "g", "e", "-", "p", "r", "e", "-", "v", "2">>,
      <<"a", "r", "n", ":", "a", "w", "s", ":", "b", "a", "t", "c", "h", ":", "e", "u", "-",
      "w", "e", "s", "t", "-", "1", ":", "1", ":", "j", "o", "b", "-", "q", "u", "e", "u",
      "e", "/", "o", "r", "c", "h", "e", "s", "t", "r", "a", "t", "o", "r", "-", "p", "r",
      "e">>,
      <<"a", "r", "n", ":", "a", "w", "s", ":", "b", "a", "t", "c", "h", ":", "e", "u", "-",
      "w", "e", "s", "t", "-", "1", ":", "1", ":", "j", "o", "b", "-", "q", "u", "e", "u",
      "e", "/", "i", "n", "g", "e", "s", "t", "-", "p", "r", "e">>
    }

\* the jobDefinition cells
JobDefinitionArns ==
    {
      NaN,
      <<>>,
      <<"a", "r", "n", ":", "a", "w", "s", ":", "b", "a", "t", "c", "h", ":", "e", "u", "-",
      "w", "e", "s", "t", "-", "1", ":", "1", ":", "j", "o", "b", "-", "d", "e", "f", "i",
      "n", "i", "t", "i", "o", "n", "/", "s", "t", "o", "r", "a", "g", "e", "-", "p", "r",
      "e", "-", "v", "2", ":", "3">>,
      <<"a", "r", "n", ":", "a", "w", "s", ":", "b", "a", "t", "c", "h", ":", "e", "u", "-",
      "w", "e", "s", "t", "-", "1", ":", "1", ":", "j", "o", "b", "-", "d", "e", "f", "i",
      "n", "i", "t", "i", "o", "n", "/", "A", "s", "s", "e", "m", "b", "l", "y", "S", "t",
      "a", "n", "d", "a", "r", "d", "-", "p", "r", "e", ":", "1", "2">>,
      <<"a", "r", "n", ":", "a", "w", "s", ":", "b", "a", "t", "c", "h", ":", "e", "u", "-",
      "w", "e", "s", "t", "-", "1", ":", "1", ":", "j", "o", "b", "-", "d", "e", "f", "i",
      "n", "i", "t", "i", "o", "n", "/", "t", "e", "x", "t", "-", "p", "r", "e", "-", "r",
      "e", "c", "o", "g", "n", "i", "t", "i", "o", "n", ":", "1">>,
      <<"a", "r", "n", ":", "a", "w", "s", ":", "b", "a", "t", "c", "h", ":", "e", "u", "-",
      "w", "e", "s", "t", "-", "1", ":", "1", ":", "j", "o", "b", "-", "d", "e", "f", "i",
      "n", "i", "t", "i", "o", "n", "/", "o", "r", "c", "h", "e", "s", "t", "r", "a", "t",
      "o", "r", "-", "p", "r", "e">>,
      <<"a", "r", "n", ":", "a", "w", "s", ":", "b", "a", "t", "c", "h", ":", "e", "u", "-",
      "w", "e", "s", "t", "-", "1", ":", "1", ":", "j", "o", "b", "-", "d", "e", "f", "i",
      "n", "i", "t", "i", "o", "n", "/", "i", "n", "g", "e", "s", "t", "-", "s", "t", "o",
      "r", "a", "g", "e", ":", "2">>,
      <<"a", "r", "n", ":", "a", "w", "s", ":", "b", "a", "t", "c", "h", ":", "e", "u", "-",
      "w", "e", "s", "t", "-", "1", ":", "1", ":", "j", "o", "b", "-", "d", "e", "f", "i",
      "n", "i", "t", "i", "o", "n", "/", "t", "r", "a", "n", "s", "c", "o", "d", "e", "-",
      "p", "r", "e", ":", "7">>,
      <<"r", "e", "c", "o", "g", "n", "i", "t", "i", "o", "n", ":", "t", "e", "x", "t">>
    }

\* row.get('jobName'): no such column, a missing cell, a str
JobNameCells ==
    {
      None,
      Some(NaN),
      Some(<<>>),
      Some(<<"p", "r", "e", "-", "6", "9", "4", "9", "0", "f", "5", "f", "c", "0", "5", "f",
      "b", "7", "8", "d", "a", "7", "b", "7", "3", "8", "0", "f", "-", "1", "7", "6", "6",
      "3", "9", "5", "7", "5", "5", "5", "7", "7">>),
      Some(<<"a", "s", "s", "e", "m", "b", "l", "y", "-", "p", "r", "e", "-", "n", "o", "_",
      "o", "u", "t", "p", "u", "t", "_", "4", "-", "6", "9", "4", "9", "1", "6", "f", "c",
      "7", "4", "f", "e", "a", "e", "0", "1", "4", "0", "6", "4", "b", "7", "3", "7", "-",
      "z", "i", "p", "_", "p", "a", "c", "k", "a", "g", "e", "-", "1", "1", "4", "s", "e",
      "c">>),
      Some(<<"n", "o", "-", "h", "e", "x", "-", "h", "e", "r", "e">>),
      Some(<<"w", "s", "1", "-", "6", "9", "4", "A", "9", "D", "5", "7", "B", "8", "8", "9",
      "4", "0", "A", "9", "E", "5", "C", "D", "3", "B", "E", "E", "-", "6", "9", "8", "5",
      "b", "6", "9", "8", "f", "a", "8", "8", "7", "f", "d", "a", "a", "7", "e", "5", "5",
      "c", "0", "b">>),
      Some(<<"r", "e", "c", "o", "g", "n", "i", "s", "e", "-", "6", "9", "4", "9", "0", "f",
      "5", "f", "c", "0", "5", "f", "b", "7", "8", "d", "a", "7", "b", "7", "3", "8", "0",
      "-", "6", "9", "4", "9", "0", "f", "5", "f", "c", "0", "5", "f", "b", "7", "8", "d",
      "a", "7", "b", "7", "3", "8", "0", "f", "f">>),
      Some(<<"x", "-", "6", "9", "4", "9", "0", "f", "5", "f", "c", "0", "5", "f", "b", "7",
      "8", "d", "a", "7", "b", "7", "3", "8", "0", "g", "-", "p", "r", "e">>),
      Some(<<"-", "6", "9", "4", "9", "0", "f", "5", "f", "c", "0", "5", "f", "b", "7", "8",
      "d", "a", "7", "b", "7", "3", "8", "0", "f">>),
      Some(<<"6", "9", "4", "9", "0", "f", "5", "f", "c", "0", "5", "f", "b", "7", "8", "d",
      "a", "7", "b", "7", "3", "8", "0", "F">>)
    }

\* row.get('task_id'): no such column, a missing cell, an empty or a stored id
StoredTaskIds ==
    {None, Some(NaN), Some(<<>>),
     Some(<<"6", "5", "f", "0", "c", "0", "f", "f", "e", "e", "6", "5", "f", "0", "c", "0", "f", "f", "e", "e", "6", "5", "f", "0">>)}

\* row.get('workspace_uid')
StoredWorkspaceUids ==
    {None, Some(NaN), Some(<<>>), Some(<<"w", "s", "-", "s", "t", "o", "r", "e", "d">>)}

DynamoItems ==
    [jobQueue : QueueArns, jobDefinition : JobDefinitionArns, jobName : JobNameCells,
     task_id : StoredTaskIds, workspace_uid : StoredWorkspaceUids]

InitFormat ==
    /\ LoadIdle
    /\ RegistryIdle
    /\ ActionsIdle
    /\ IngestIdle
    /\ environ = [k \in {} |-> ""]
    /\ boot_environ = environ
    /\ secrets = [k \in {} |-> ""]
    /\ env_before = [w \in Workers |-> environ]
    /\ row \in DynamoItems
    /\ derived = NotDerived
    /\ filtered_df = 0
    /\ page_size = 20
    /\ current_page = 1
    /\ rendered = NotRendered

\* the dashboard formats the item it loaded
FormatJobsDataframe ==
    /\ derived = NotDerived
    /\ derived' = FormatJob(row)
    /\ UNCHANGED <<loadVars, regVars, actVars, ingVars, row, filtered_df, page_size,
                   current_page, rendered>>

NextFormat == FormatJobsDataframe

SpecFormat == InitFormat /\ [][NextFormat]_vars

(***************************************************************************)
(* The pagination of the jobs table (app.py 404-502).  A script run goes   *)
(* from the page size selector to the navigation buttons; st.rerun() ends  *)
(* it and asks for another one.                                            *)
(***************************************************************************)
\* rows the filters can leave
MaxJobs == 101

\* app.py:409
PageSizeOptions == <<20, 50, 100>>

Buttons == {"Première", "Précédente", "Suivante", "Dernière"}

\* the table block showing the page asked for without bringing it in bounds
TableBlockUnclamped(total_jobs, size, page) ==
    LET total_pages == (total_jobs + size - 1) \div size
        start_idx == (page - 1) * size
        end_idx == IF start_idx + size < total_jobs THEN start_idx + size ELSE total_jobs
    IN  [table |-> TRUE, total_jobs |-> total_jobs, total_pages |-> total_pages,
         current_page |-> page, start_idx |-> start_idx, end_idx |-> end_idx]

\* app.py:445-461, for a filtered_df that is not empty
TableBlock(total_jobs, size, page) ==
    LET total_pages == (total_jobs + size - 1) \div size
        below == IF page > total_pages THEN total_pages ELSE page
        within == IF below < 1 THEN 1 ELSE below
        start_idx == (within - 1) * size
        end_idx == IF start_idx + size < total_jobs THEN start_idx + size ELSE total_jobs
    IN  [table |-> TRUE, total_jobs |-> total_jobs, total_pages |-> total_pages,
         current_page |-> within, start_idx |-> start_idx, end_idx |-> end_idx]

\* a script run in which no widget calls st.rerun(): lines 445-502
RunToEnd(total_jobs, after) ==
    IF total_jobs = 0
    THEN /\ rendered' = [NotRendered EXCEPT !.after = after]
         /\ UNCHANGED current_page
    ELSE LET shown == TableBlock(total_jobs, page_size, current_page)
         IN  /\ rendered' = shown @@ [NotRendered EXCEPT !.after = after]
             /\ current_page' = shown.current_page

\* app.py:474-500, the page a button sets
Pressed(button, page, total_pages) ==
    CASE button = "Première" -> 1
      [] button = "Précédente" -> page - 1
      [] button = "Suivante" -> page + 1
      [] button = "Dernière" -> total_pages

\* the `disabled` of a button as the table on display drew it
Disabled(button, shown) ==
    IF button \in {"Première", "Précédente"} THEN shown.current_page = 1
    ELSE shown.current_page = shown.total_pages

InitPages ==
    /\ LoadIdle
    /\ RegistryIdle
    /\ ActionsIdle
    /\ IngestIdle
    /\ environ = [k \in {} |-> ""]
    /\ boot_environ = environ
    /\ secrets = [k \in {} |-> ""]
    /\ env_before = [w \in Workers |-> environ]
    /\ ViewIdle

\* a filter widget changes, or the jobs are loaded anew: the run goes to its end
ChangeFilter ==
    /\ ~rendered.rerun
    /\ \E total_jobs \in 0..MaxJobs :
          /\ filtered_df' = total_jobs
          /\ RunToEnd(total_jobs, "filters")
    /\ UNCHANGED <<loadVars, regVars, actVars, ingVars, row, derived, page_size>>

\* app.py:408-420, another page size is selected
SelectPageSize ==
    /\ ~rendered.rerun
    /\ \E selected_page_size \in {PageSizeOptions[i] : i \in DOMAIN PageSizeOptions} :
          /\ selected_page_size # page_size
          /\ page_size' = selected_page_size
          /\ current_page' = 1
          /\ rendered' = [NotRendered EXCEPT !.rerun = TRUE, !.by = "page_size_selector"]
    /\ UNCHANGED <<loadVars, regVars, actVars, ingVars, row, derived, filtered_df>>

\* app.py:474-500, a button of the table on display is pressed; the run it
\* causes may find other rows, draws the table, then handles the button
Press ==
    /\ ~rendered.rerun
    /\ rendered.table
    /\ \E button \in Buttons, total_jobs \in 0..MaxJobs :
          /\ ~Disabled(button, rendered)
          /\ filtered_df' = total_jobs
          /\ IF total_jobs = 0
             THEN RunToEnd(total_jobs, button)
             ELSE LET shown == TableBlock(total_jobs, page_size, current_page)
                  IN  /\ current_page' = Pressed(button, shown.current_page, shown.total_pages)
                      /\ rendered' = shown @@ [NotRendered EXCEPT !.rerun = TRUE, !.by = button]
    /\ UNCHANGED <<loadVars, regVars, actVars, ingVars, row, derived, page_size>>

\* the run that st.rerun() asked for
Rerun ==
    /\ rendered.rerun
    /\ RunToEnd(filtered_df, rendered.by)
    /\ UNCHANGED <<loadVars, regVars, actVars, ingVars, row, derived, filtered_df, page_size>>

NextPages == ChangeFilter \/ SelectPageSize \/ Press \/ Rerun

SpecPages == InitPages /\ [][NextPages]_vars

(***************************************************************************)
(* Vocabulary of the properties of the reduction                           *)
(***************************************************************************)
Range(seq) == {seq[i] : i \in 1..Len(seq)}

\* positions of the well-formed records of a job in an input
JobRecords(input, j) ==
    {i \in 1..Len(input) : HasJobId(input[i]) /\ HasTimestamp(input[i]) /\ input[i].jobId = j}

DistinctTimestamps(input, j) ==
    \A a, b \in JobRecords(input, j) : a # b => input[a].timestamp # input[b].timestamp

\* positions of the records of a job that carry its greatest timestamp
GreatestAt(input, j) ==
    {i \in JobRecords(input, j) :
        \A k \in JobRecords(input, j) : ~StrLT(input[i].timestamp, input[k].timestamp)}

\* the view as a mapping: the records it holds for a job
Entry(list, j) == {list[k] : k \in KeyIndex(list, j)}

Orderings(S) == {f \in [1..Cardinality(S) -> S] : \A a, b \in DOMAIN f : a # b => f[a] # f[b]}

Permuted(input) == {[i \in DOMAIN input |-> input[f[i]]] : f \in Orderings(DOMAIN input)}

\* the chunk of input that starts after position s when input is cut after
\* the positions of cuts
ChunkEnd(input, cuts, s) ==
    LET later == {c \in cuts \cup {Len(input)} : c > s} IN
    CHOOSE c \in later : \A d \in later : c <= d

Chunk(input, cuts, s) == SubSeq(input, s + 1, ChunkEnd(input, cuts, s))

RECURSIVE Merged(_, _, _, _)
Merged(input, cuts, order, n) ==
    IF n = 0 THEN <<>>
    ELSE Merged(input, cuts, order, n - 1)
            \o Reduce(Chunk(input, cuts, order[n])).latest_jobs

\* every way to cut input into chunks, reduce each and merge the results
ChunkedViews(input) ==
    IF input = <<>> THEN {Range(Reduce(input).latest_jobs)}
    ELSE UNION { { Range(Reduce(Merged(input, cuts, order, Len(order))).latest_jobs) :
                     order \in Orderings({0} \cup cuts) } :
                 cuts \in SUBSET (1..(Len(input) - 1)) }

(***************************************************************************)
(* C1: for a job whose well-formed records carry pairwise distinct         *)
(* timestamps, the returned list holds exactly the record of that job with *)
(* the greatest timestamp under string comparison, and the entry of that   *)
(* job is the same for every ordering of the input.                        *)
(***************************************************************************)
C1_LatestPerJob ==
    pc = "done" =>
        /\ ~raised
        /\ \A j \in JobIds :
            (JobRecords(all_items, j) # {} /\ DistinctTimestamps(all_items, j)) =>
                /\ Entry(result, j) = {all_items[i] : i \in GreatestAt(all_items, j)}
                /\ Cardinality(Entry(result, j)) = 1
                /\ \A p \in Permuted(all_items) :
                       ~Reduce(p).raised
                       /\ Entry(Reduce(p).latest_jobs, j) = Entry(result, j)

\* a job with three records, the greatest timestamp neither first nor last
C1_Witness ==
    /\ pc = "done"
    /\ Len(all_items) = 3
    /\ JobRecords(all_items, "j1") = {1, 2, 3}
    /\ DistinctTimestamps(all_items, "j1")
    /\ GreatestAt(all_items, "j1") = {2}
    /\ result = <<all_items[2]>>

(***************************************************************************)
(* C2: when every job has pairwise distinct timestamps, cutting the input  *)
(* into chunks, reducing each chunk and reducing the merged chunk results  *)
(* gives the same view as reducing the whole input.                        *)
(***************************************************************************)
C2_ChunkingInvariant ==
    (pc = "done" /\ \A j \in JobIds : DistinctTimestamps(all_items, j)) =>
        /\ ~raised
        /\ ChunkedViews(all_items) = {Range(result)}

\* three records of two jobs: there are four ways to cut them
C2_Witness ==
    /\ pc = "done"
    /\ \A j \in JobIds : DistinctTimestamps(all_items, j)
    /\ Cardinality(JobRecords(all_items, "j1")) = 2
    /\ Cardinality(JobRecords(all_items, "j2")) = 1
    /\ Len(result) = 2

(***************************************************************************)
(* C3: an empty input gives an empty view, and every job that has at least *)
(* one well-formed record is present in the view.                          *)
(***************************************************************************)
C3_NoJobDropped ==
    pc = "done" =>
        /\ ~raised
        /\ (all_items = <<>> => result = <<>>)
        /\ \A j \in JobIds : JobRecords(all_items, j) # {} => Entry(result, j) # {}

\* a job whose only well-formed record is the first item, followed by
\* malformed records
C3_Witness ==
    /\ pc = "done"
    /\ Len(all_items) >= 2
    /\ JobRecords(all_items, "j2") = {1}
    /\ JobRecords(all_items, "j1") = {}
    /\ result = <<all_items[1]>>

(***************************************************************************)
(* C4: the view holds at most one record per jobId and every record of the *)
(* view is an input record that carries that jobId.                        *)
(***************************************************************************)
C4_OnePerJob ==
    pc = "done" =>
        /\ \A k \in 1..Len(result) :
            /\ HasJobId(result[k])
            /\ \E i \in 1..Len(all_items) : all_items[i] = result[k]
        /\ \A k, l \in 1..Len(result) : k # l => result[k].jobId # result[l].jobId

\* a job with several records of increasing timestamps: one is kept
C4_Witness ==
    /\ pc = "done"
    /\ Len(all_items) = 3
    /\ JobRecords(all_items, "j1") = {1, 2, 3}
    /\ StrLT(all_items[1].timestamp, all_items[2].timestamp)
    /\ StrLT(all_items[2].timestamp, all_items[3].timestamp)
    /\ Len(result) = 1

(***************************************************************************)
(* C5 as stated: when several records of a job carry the greatest          *)
(* timestamp of that job, the one that is last in the input is kept.       *)
(***************************************************************************)
C5_LastSeenWins ==
    pc = "done" =>
        \A j \in JobIds :
            LET G == GreatestAt(all_items, j) IN
            Cardinality(G) >= 2 =>
                Entry(result, j) = {all_items[CHOOSE i \in G : \A k \in G : k <= i]}

(***************************************************************************)
(* C5 amended: when several records of a job carry the greatest timestamp  *)
(* of that job, the one that is first in the input is kept.                *)
(***************************************************************************)
C5_FirstSeenWins ==
    pc = "done" =>
        \A j \in JobIds :
            LET G == GreatestAt(all_items, j) IN
            Cardinality(G) >= 2 =>
                Entry(result, j) = {all_items[CHOOSE i \in G : \A k \in G : k >= i]}

\* two different records of a job tie on its greatest timestamp
C5_Witness ==
    /\ pc = "done"
    /\ \E a, b \in GreatestAt(all_items, "j1") :
        /\ a < b
        /\ all_items[a] # all_items[b]
        /\ result = <<all_items[a]>>

(***************************************************************************)
(* C6: a record without jobId or without timestamp is not in the view, the *)
(* call does not fail, and the view is the one the well-formed records     *)
(* alone produce.                                                          *)
(***************************************************************************)
WellFormedOnly(input) ==
    SelectSeq(input, LAMBDA item : HasJobId(item) /\ HasTimestamp(item))

C6_MalformedIgnored ==
    pc = "done" =>
        /\ ~raised
        /\ \A k \in 1..Len(result) : HasJobId(result[k]) /\ HasTimestamp(result[k])
        /\ result = Reduce(WellFormedOnly(all_items)).latest_jobs

\* a record of j1 without timestamp comes before a well-formed record of j1
C6_Witness ==
    /\ pc = "done"
    /\ Len(all_items) >= 2
    /\ all_items[1] = [jobId |-> "j1", status |-> "FAILED"]
    /\ JobRecords(all_items, "j1") = {2}
    /\ result = <<all_items[2]>>

(***************************************************************************)
(* C7: the scans follow one another by the continuation key until a        *)
(* response carries none, no position of the table is returned twice, and  *)
(* the reduction starts only when every item of the table was fetched      *)
(* exactly once; its input is the whole table.                             *)
(***************************************************************************)
C7_PaginationExhausted ==
    /\ \A i \in DOMAIN fetched : fetched[i] <= 1
    /\ all_items = SubSeq(table, 1, Len(all_items))
    /\ HasLastKey(response) => response.LastEvaluatedKey = Len(all_items)
    /\ pc = "paging" => HasLastKey(response)
    /\ pc \in {"reduce", "done"} =>
        /\ ~HasLastKey(response)
        /\ all_items = table
        /\ \A i \in DOMAIN fetched : fetched[i] = 1
    /\ pc = "done" /\ ~raised => result = Reduce(table).latest_jobs

\* the third page of a table of three items was the last one: the reduction
\* is about to start on the whole table
C7_Witness ==
    /\ pc = "reduce"
    /\ Len(table) = 3
    /\ HasStartKey(request)
    /\ request.ExclusiveStartKey = 2
    /\ ~HasLastKey(response)
    /\ all_items = table

(***************************************************************************)
(* C8: the script runs of one session that obtain the client all hold the  *)
(* same client instance, and BackboneClient is constructed at most once    *)
(* for the session, under every interleaving.                              *)
(***************************************************************************)
C8_ConstructedOnce ==
    /\ \A s \in Sessions : constructions[s] <= 1
    /\ \A v, w \in Workers :
        (wpc[v] = "done" /\ wpc[w] = "done" /\ wsession[v] = wsession[w]) =>
            backbone[v].client = backbone[w].client

(***************************************************************************)
(* C9: the ambient region the constructor reads during a construction is   *)
(* the region of the call that constructs, so every client is bound to the *)
(* region it was requested for.                                            *)
(***************************************************************************)
C9_BoundToRequestedRegion ==
    \A w \in Workers :
        self[w].client # None =>
            self[w].client[1].region = Some(self[w].client[1].requested)

(***************************************************************************)
(* C10: when a construction has finished, with a client or with an error,  *)
(* the ambient region and workspace identity are what they were when the   *)
(* construction started.                                                   *)
(***************************************************************************)
AmbientKeys == {"AWS_DEFAULT_REGION", "WORKSPACE_UID"}

Ambient(env) == [k \in DOMAIN env \cap AmbientKeys |-> env[k]]

C10_EnvironmentRestored ==
    \A w \in Workers :
        (wpc[w] = "store" /\ (self[w].client # None \/ self[w].init_error # None)) =>
            Ambient(environ) = Ambient(env_before[w])

(***************************************************************************)
(* C11: the ambient region and workspace identity are written only inside  *)
(* a client construction, under the construction lock: whenever no worker  *)
(* is inside a construction (the code has no lock to hold, so this is the  *)
(* only sense in which the lock is free) they are what the process started *)
(* with.                                                                   *)
(***************************************************************************)
InConstruction(w) == wpc[w] \in {"init", "setenv", "construct"}

C11_AmbientOnlyUnderLock ==
    (\A w \in Workers : ~InConstruction(w)) =>
        Ambient(environ) = Ambient(boot_environ)

(***************************************************************************)
(* C12: once the slot of a context holds an instance, no step replaces it  *)
(* by another instance or empties it, and no further construction is run   *)
(* for that context.                                                       *)
(***************************************************************************)
C12_SlotWrittenOnce ==
    [][\A s \in Sessions :
          ~SlotEmpty(s) =>
              /\ session_state'[s] = session_state[s]
              /\ constructions'[s] = constructions[s]]_vars

(***************************************************************************)
(* C13: a constructor that raises leaves an instance without client and    *)
(* with the cause recorded, and the failure stays with the region it was   *)
(* raised for: a script run that ends with a failed instance in hand is a  *)
(* run whose own region the construction was attempted for.                *)
(***************************************************************************)
C13_FailureStaysWithRegion ==
    \A w \in Workers :
        /\ (wpc[w] = "store" /\ self[w].client = None /\ Truthy(self[w].workspace_uid)) =>
               self[w].init_error # None
        /\ (wpc[w] = "done" /\ backbone[w].init_error # None) =>
               backbone[w].requested = Some(wregion[w])

(***************************************************************************)
(* Vocabulary of the properties of the operations                          *)
(***************************************************************************)
Composites == {"restart_and_break_task_direct", "restart_and_break_task"}

Calls == DOMAIN remote_calls

Method(i) == remote_calls[i].method

Answer(i) == remote_calls[i].answer

ByMedia(i) == Method(i) = "get_tasks" /\ remote_calls[i].args.query_filter[1] = "eq(media_id,"

ByTaskId(i) == Method(i) = "get_tasks" /\ remote_calls[i].args.query_filter[1] = "eq(task_id,"

\* the calls of the restart step: the query by task id and the launch
RestartStep(i) == ByTaskId(i) \/ Method(i) = "launch_task"

\* the break step gave a failure: no client, or one of its calls raised
BreakFailed ==
    \/ ~IsAvailable(backbone_client)
    \/ \E call \in Calls :
          (Method(call) = "break_task_by_id" \/ ByMedia(call)) /\ Raises(Answer(call))

BreakReturned == \E call \in Calls : Method(call) = "break_task_by_id" /\ ~Raises(Answer(call))

LaunchReturned == \E call \in Calls : Method(call) = "launch_task" /\ ~Raises(Answer(call))

Returned == op_outcome.kind = "returned"

\* the tasks a query gave, as get_task_info reads them
Matches(i) ==
    IF Raises(Answer(i)) THEN <<>>
    ELSE IF Answer(i).return.kind = "dict" /\ "data" \in DOMAIN Answer(i).return
    THEN Answer(i).return.data ELSE <<>>

Named(doc) == \E k \in {"type", "task_name", "name"} : k \in DOMAIN doc /\ doc[k] # ""

\* the message of the restart step inside the message of the operation
RestartError ==
    IF invocation.op \in Composites THEN Tail(op_outcome.value.error)
    ELSE op_outcome.value.error

(***************************************************************************)
(* C14: in restart_and_break_task_direct and restart_and_break_task, when  *)
(* the break step fails no call of the restart step (query by task id,     *)
(* launch) is issued and the operation returns a failure whose message     *)
(* names the break.                                                        *)
(***************************************************************************)
C14_NoRestartAfterFailedBreak ==
    (invocation.op \in Composites /\ BreakFailed) =>
        /\ \A call \in Calls : ~RestartStep(call)
        /\ Returned
        /\ ~op_outcome.value.success
        /\ op_outcome.value.error[1] = "Échec du break: "

C14_Witness ==
    /\ invocation.op \in Composites
    /\ IsAvailable(backbone_client)
    /\ \E call \in Calls : Method(call) = "break_task_by_id" /\ Raises(Answer(call))
    /\ ~op_outcome.value.success

C16_LaunchOnlyForNamedTask ==
    /\ \A i \in DOMAIN remote_calls :
          Method(i) = "launch_task" =>
              \E j \in 1..(i - 1) :
                  /\ ByTaskId(j)
                  /\ Len(Matches(j)) > 0
                  /\ Named(Matches(j)[1])
    /\ \A call \in Calls :
          (ByTaskId(call) /\ ~Raises(Answer(call)) /\ invocation.op # "get_task_info") =>
              /\ Len(Matches(call)) = 0 =>
                    /\ \A other \in Calls : Method(other) # "launch_task"
                    /\ ~op_outcome.value.success
                    /\ RestartError = <<"Tâche ", invocation.task_id, " non trouvée">>
              /\ (Len(Matches(call)) > 0 /\ ~Named(Matches(call)[1])) =>
                    /\ \A other \in Calls : Method(other) # "launch_task"
                    /\ ~op_outcome.value.success
                    /\ RestartError[1] =
                         "task_name/type non trouvé dans les informations de la tâche. Clés disponibles: "

C16_Witness ==
    /\ invocation.op = "restart_task"
    /\ \E i, j \in DOMAIN remote_calls :
          /\ j < i
          /\ Method(i) = "launch_task"
          /\ ByTaskId(j)
          /\ Len(Matches(j)) > 0
          /\ Named(Matches(j)[1])

(***************************************************************************)
(* C17: an operation the Exécuter handler invokes gives its caller a dict, *)
(* never an exception, and the dict is a failure with a message whenever a *)
(* remote call raised.                                                     *)
(***************************************************************************)
C17_NoExceptionEscapes ==
    (invocation.op # "none" /\ invocation.from = "Exécuter") =>
        /\ Returned
        /\ (\E call \in Calls : Raises(Answer(call))) =>
              /\ ~op_outcome.value.success
              /\ Len(op_outcome.value.error) > 0

(***************************************************************************)
(* C18: repair_assembly invoked while the remote service is unreachable    *)
(* returns a failure with a message and raises nothing.                    *)
(***************************************************************************)
C18_RepairFailureReturned ==
    (invocation.op = "repair_assembly" /\ invocation.unreachable) =>
        /\ Returned
        /\ ~op_outcome.value.success
        /\ Len(op_outcome.value.error) > 0

(***************************************************************************)
(* C19: every call an operation issues goes through a client bound to the  *)
(* region of the job the operation is invoked for.                         *)
(***************************************************************************)
C19_CallsThroughRegionClient ==
    \A call \in Calls : remote_calls[call].client.region = Some(invocation.region)

(***************************************************************************)
(* Vocabulary of the properties of the ingester                            *)
(***************************************************************************)
\* the jobId the handler files an event under
JobIdOf(event) == GetOr(GetOr(event, "detail", EmptyDict), "jobId", "unknown")

JobIdsSeen == {JobIdOf(events[i].event) : i \in DOMAIN events}

\* the last event stored for a jobId
LastOf(job_id) ==
    events[CHOOSE i \in DOMAIN events :
               /\ JobIdOf(events[i].event) = job_id
               /\ \A j \in (i + 1)..Len(events) : JobIdOf(events[j].event) # job_id]

(***************************************************************************)
(* C20: after any sequence of events the table holds one item per jobId    *)
(* seen and no other, and the item of a jobId is the one built from the    *)
(* last event stored for it, whatever was written for other jobIds since.  *)
(***************************************************************************)
C20_OneItemPerJobLatest ==
    /\ Len(table) = Cardinality(JobIdsSeen)
    /\ \A job_id \in JobIdsSeen :
          \E i \in DOMAIN table :
              /\ table[i] = Item(LastOf(job_id).event, LastOf(job_id).now)
              /\ \A j \in DOMAIN table : table[j].jobId = job_id => j = i

C20_Witness ==
    /\ Len(events) = 3
    /\ JobIdOf(events[1].event) = "j1"
    /\ JobIdOf(events[2].event) = "j2"
    /\ JobIdOf(events[3].event) = "j1"
    /\ Item(events[1].event, events[1].now) # Item(events[3].event, events[3].now)
    /\ Len(table) = 2

(***************************************************************************)
(* C21: when the events have been ingested in any order and the view is    *)
(* then loaded, the record shown for a jobId carries the greatest          *)
(* timestamp among the records ingested for it, and every ingested record  *)
(* is still in the table.                                                  *)
(***************************************************************************)
Ingested == {Item(events[i].event, events[i].now) : i \in DOMAIN events}

C21_GreatestIngestedShown ==
    (pc = "done" /\ ~raised) =>
        /\ \A shown \in Range(result) :
              \A item \in Ingested :
                  item.jobId = shown.jobId => ~StrGT(item.timestamp, shown.timestamp)
        /\ Ingested \subseteq Range(table)

(***************************************************************************)
(* C22: an operation invoked on an instance that is not available (no      *)
(* workspace identity, or a construction that failed) returns a failure    *)
(* that says so and issues no remote call; on an available instance no     *)
(* operation gives that answer, so the answer follows the instance of the  *)
(* moment.                                                                 *)
(***************************************************************************)
SaysNotAvailable ==
    /\ Returned
    /\ ~op_outcome.value.success
    /\ \/ op_outcome.value.error = NotAvailable.error
       \/ /\ Len(op_outcome.value.error) = 2
          /\ op_outcome.value.error[1] = "Échec du break: "
          /\ op_outcome.value.error[2] = NotAvailable.error[1]

C22_UnavailableNoRemoteCall ==
    invocation.op # "none" =>
        /\ ~IsAvailable(backbone_client) => (SaysNotAvailable /\ remote_calls = <<>>)
        /\ IsAvailable(backbone_client) => ~SaysNotAvailable

C22_Witness ==
    /\ invocation.op = "restart_task"
    /\ backbone_client.init_error # None
    /\ SaysNotAvailable
    /\ remote_calls = <<>>

(***************************************************************************)
(* C23: a composite that returns success issued one break, one query by    *)
(* task id and one launch, in that order (the lookup by media_id that      *)
(* break_task may make comes before the break), and its result holds what  *)
(* the break returned and what the launch returned.                        *)
(***************************************************************************)
C23_BreakQueryLaunchInOrder ==
    (invocation.op \in Composites /\ Returned /\ op_outcome.value.success) =>
        \E b, q, l \in Calls :
            /\ b < q /\ q < l /\ l = Len(remote_calls)
            /\ Method(b) = "break_task_by_id" /\ ByTaskId(q) /\ Method(l) = "launch_task"
            /\ \A other \in Calls \ {b, q, l} : ByMedia(other) /\ other < b
            /\ op_outcome.value.result.break = Answer(b).return
            /\ op_outcome.value.result.restart = Answer(l).return

C23_Witness ==
    /\ invocation.op = "restart_and_break_task_direct"
    /\ Returned
    /\ op_outcome.value.success
    /\ Len(remote_calls) = 3

(***************************************************************************)
(* C24: abort_task_direct and break_task_direct on an available instance   *)
(* issue one remote call per invocation, abort_task_by_id or               *)
(* break_task_by_id with the task id given, whatever the remote answered   *)
(* before: k invocations in a row with one task id issue k such calls.     *)
(***************************************************************************)
DirectMethod(op) == IF op = "abort_task_direct" THEN "abort_task_by_id" ELSE "break_task_by_id"

C24_OneCallPerInvocation ==
    (invocation.op # "none" /\ IsAvailable(backbone_client)) =>
        /\ Len(remote_calls) = invocation.times
        /\ \A i \in Calls :
              /\ Method(i) = DirectMethod(invocation.op)
              /\ remote_calls[i].args = [task_id |-> Some(invocation.task_id)]

C24_Witness ==
    /\ invocation.op = "abort_task_direct"
    /\ IsAvailable(backbone_client)
    /\ invocation.times = MaxRepeats
    /\ Len(remote_calls) = MaxRepeats
    /\ \A i \in Calls : ~Raises(Answer(i))

(***************************************************************************)
(* Vocabulary of the properties of the derived columns                     *)
(***************************************************************************)
\* the rules of the task type in their order: a rule holds when all the
\* words of one of its alternatives occur in the lowered name it reads
TaskTypeRules ==
    << [on |-> "queue", label |-> LabelIngest,
        any |-> {{<<"o", "r", "c", "h", "e", "s", "t", "r", "a", "t", "o", "r">>,
                  <<"i", "n", "g", "e", "s", "t">>}}],
       [on |-> "queue", label |-> LabelAssembly,
        any |-> {{<<"a", "s", "s", "e", "m", "b", "l", "y">>}}],
       [on |-> "queue", label |-> LabelTextRecognition,
        any |-> {{<<"t", "e", "x", "t", "-", "r", "e", "c", "o", "g", "n", "i", "t", "i", "o", "n">>},
                 {<<"t", "e", "x", "t", "_", "r", "e", "c", "o", "g", "n", "i", "t", "i", "o", "n">>}}],
       [on |-> "definition", label |-> LabelStorage,
        any |-> {{<<"s", "t", "o", "r", "a", "g", "e">>}}],
       [on |-> "definition", label |-> LabelAssembly,
        any |-> {{<<"a", "s", "s", "e", "m", "b", "l", "y">>}}],
       [on |-> "definition", label |-> LabelTextRecognition,
        any |-> {{<<"t", "e", "x", "t">>,
                  <<"r", "e", "c", "o", "g", "n", "i", "t", "i", "o", "n">>}}],
       [on |-> "definition", label |-> LabelIngest,
        any |-> {{<<"i", "n", "g", "e", "s", "t">>},
                 {<<"o", "r", "c", "h", "e", "s", "t", "r", "a", "t", "o", "r">>}}] >>

RuleHolds(rule, queue_name, job_def_name) ==
    LET read == Lower(IF rule.on = "queue" THEN queue_name ELSE job_def_name)
    IN  \E words \in rule.any : \A word \in words : In(word, read)

\* the first rule that holds decides; without one, the queue name when there
\* is one, else the definition name when there is one, else the sentinel
ReferenceTaskType(queue_name, job_def_name, sentinel) ==
    LET holding == {i \in DOMAIN TaskTypeRules :
                       RuleHolds(TaskTypeRules[i], queue_name, job_def_name)}
    IN  IF holding # {}
        THEN TaskTypeRules[CHOOSE i \in holding : \A j \in holding : i <= j].label
        ELSE IF queue_name # Sentinel THEN queue_name
        ELSE IF job_def_name # Sentinel THEN job_def_name
        ELSE sentinel

Unknown ==
    <<"u", "n", "k", "n", "o", "w", "n">>

HexDigits ==
    {"0", "1", "2", "3", "4", "5", "6", "7", "8", "9",
     "a", "b", "c", "d", "e", "f", "A", "B", "C", "D", "E", "F"}

\* a token of 24 hexadecimal digits
Qualifies(token) == Len(token) = 24 /\ \A k \in DOMAIN token : token[k] \in HexDigits

\* a cell that holds a value: the column exists and the cell is not ''
Stored(cell) == cell # None /\ cell[1] # <<>>

C26_StoredFieldFirst ==
    derived.derived =>
        /\ Stored(row.task_id) => derived.TaskID = row.task_id[1]
        /\ Stored(row.workspace_uid) => derived.WorkspaceUID = row.workspace_uid[1]

\* a stored task id and a job name that holds another object id
C26_Witness ==
    /\ derived.derived
    /\ Stored(row.task_id) /\ IsStr(row.task_id[1])
    /\ Stored(row.workspace_uid) /\ IsStr(row.workspace_uid[1])
    /\ row.jobName # None
    /\ AppExtractTaskId(row.jobName[1]) \notin {Sentinel, row.task_id[1]}
    /\ derived.TaskID = row.task_id[1]
    /\ derived.WorkspaceUID = row.workspace_uid[1]

(***************************************************************************)
(* C27: when the task id comes from the job name, it is the first of the   *)
(* tokens between hyphens that has 24 characters, all hexadecimal digits   *)
(* of either case, returned as written; it is the sentinel when no token   *)
(* qualifies, when the name is empty and when it is not a str.             *)
(***************************************************************************)
C27_FirstHexTokenOrSentinel ==
    (derived.derived /\ ~Stored(row.task_id)) =>
        IF row.jobName \in {None, Some(NaN), Some(<<>>)} THEN derived.TaskID = Sentinel
        ELSE LET tokens == Split(row.jobName[1], "-")
             IN  IF \E i \in DOMAIN tokens : Qualifies(tokens[i])
                 THEN \E i \in DOMAIN tokens :
                         /\ Qualifies(tokens[i])
                         /\ \A j \in 1..(i - 1) : ~Qualifies(tokens[j])
                         /\ derived.TaskID = tokens[i]
                 ELSE derived.TaskID = Sentinel

\* two tokens qualify, the first one in capitals
C27_Witness ==
    /\ derived.derived
    /\ ~Stored(row.task_id)
    /\ row.jobName \notin {None, Some(NaN), Some(<<>>)}
    /\ LET tokens == Split(row.jobName[1], "-")
       IN  /\ Len(tokens) = 3
           /\ Qualifies(tokens[2]) /\ Qualifies(tokens[3])
           /\ Lower(tokens[2]) # tokens[2]
           /\ derived.TaskID = tokens[2]

(***************************************************************************)
(* C29: a jobs table on display shows a page between 1 and total_pages and *)
(* rows [start_idx, end_idx) that are at least one and all within the      *)
(* filtered rows, whatever buttons, page sizes and filters came before;    *)
(* selecting another page size sets current_page to 1, and the table drawn *)
(* next shows page 1.                                                      *)
(***************************************************************************)
C29_PageWithinBounds ==
    /\ rendered.table =>
          /\ 1 <= rendered.current_page
          /\ rendered.current_page <= rendered.total_pages
          /\ 0 <= rendered.start_idx
          /\ rendered.start_idx < rendered.end_idx
          /\ rendered.end_idx <= rendered.total_jobs
          /\ rendered.end_idx - rendered.start_idx <= page_size
          /\ rendered.total_jobs = filtered_df
    /\ (rendered.table /\ ~rendered.rerun) => current_page = rendered.current_page
    /\ rendered.by = "page_size_selector" => current_page = 1
    /\ (rendered.table /\ rendered.after = "page_size_selector") => rendered.current_page = 1

\* the last page was on display and a run found fewer rows
C29_Witness ==
    /\ rendered.table
    /\ rendered.after = "Suivante"
    /\ page_size = 50
    /\ rendered.total_pages = 2
    /\ rendered.current_page = 2
    /\ rendered.end_idx = MaxJobs - 1

(***************************************************************************)
(* C28: the script runs of a session construct BackboneActions at most     *)
(* once, and once the session holds an instance no run constructs another: *)
(* an instance that is not available stays in the slot, not available, for *)
(* the rest of the session.                                                *)
(***************************************************************************)
Constructing(s) == {w \in Workers : wsession[w] = s /\ self[w] # NoInstance}

C28_ConstructionNeverRetried ==
    [][\A s \in Sessions :
          /\ Cardinality(Constructing(s)') <= 1
          /\ ~SlotEmpty(s) =>
                /\ \A w \in Workers : wpc[w] = "init" /\ wsession[w] = s => self'[w] = self[w]
                /\ ~IsAvailable(session_state[s].backbone_client) =>
                      session_state'[s] = session_state[s]]_vars

(***************************************************************************)
(* C30: a press of Exécuter that calls a method of the orchestrator adds   *)
(* one entry at the end of the action log, a Success or an Error; a press  *)
(* refused for an unavailable client or a missing identifier adds none;    *)
(* the entries already there stay as they are, in their order.             *)
(***************************************************************************)
C30_OneEntryPerCall ==
    [][presses' = presses + 1 =>
          IF invocation'.op # "none"
          THEN /\ Len(action_log') = Len(action_log) + 1
               /\ SubSeq(action_log', 1, Len(action_log)) = action_log
               /\ action_log'[Len(action_log')].Status[1] \in {"Success", "Error: "}
          ELSE action_log' = action_log]_vars

====
